---- MODULE Spec2Model ----
(***************************************************************************)
(* A model of the stream2sentence Go port: the boundary classifier         *)
(* (tokenizer.go), the text cleanup (text_utils.go), the incremental       *)
(* SentenceSplitter (Add / Stream / Flush) and the channel wrappers        *)
(* GenerateSentences / GenerateSentencesAsync.                             *)
(*                                                                         *)
(* A string is a sequence of runes.  An ASCII rune is the one-character    *)
(* string itself; the other runes are named: "LF" "TAB" "CR" "VT" (white   *)
(* space), "NUL" (U+0000), "ELLIPSIS" (U+2026), "CJKDOT" (U+3002),         *)
(* "FFFD" (U+FFFD), "EMOJI" (U+1F600).  "BAD" is a byte that is not valid  *)
(* UTF-8; it occurs only in input chunks.                                  *)
(***************************************************************************)
EXTENDS Integers, Sequences, FiniteSets, TLC

----------------------------------------------------------------------------
(* Runes and the unicode predicates the code uses *)

UpperSeq == <<"A","B","C","D","E","F","G","H","I","J","K","L","M",
              "N","O","P","Q","R","S","T","U","V","W","X","Y","Z">>

LowerSeq == <<"a","b","c","d","e","f","g","h","i","j","k","l","m",
              "n","o","p","q","r","s","t","u","v","w","x","y","z">>

SeqRange(s) == {s[i] : i \in 1..Len(s)}

UpperRunes == SeqRange(UpperSeq)

LowerRunes == SeqRange(LowerSeq)

DigitRunes == {"0","1","2","3","4","5","6","7","8","9"}

\* unicode.IsSpace
IsSpace(r) == r \in {" ", "TAB", "LF", "VT", "CR"}

\* unicode.IsDigit
IsDigit(r) == r \in DigitRunes

\* unicode.IsUpper
IsUpper(r) == r \in UpperRunes

\* unicode.IsLower
IsLower(r) == r \in LowerRunes

\* unicode.IsLetter
IsLetter(r) == r \in UpperRunes \cup LowerRunes

\* unicode.ToLower on one rune
ToLowerRune(r) ==
    IF r \in UpperRunes
    THEN LowerSeq[CHOOSE i \in 1..Len(UpperSeq) : UpperSeq[i] = r]
    ELSE r

\* strings.ToLower
ToLower(s) == [i \in 1..Len(s) |-> ToLowerRune(s[i])]

\* the number of bytes of the UTF-8 encoding of a rune
RuneLen(r) ==
    IF r \in {"ELLIPSIS", "CJKDOT", "FFFD"} THEN 3
    ELSE IF r = "EMOJI" THEN 4
    ELSE 1

\* len(string): the length in bytes
ByteLen(s) ==
    Len(s) + 2 * Cardinality({i \in 1..Len(s) : RuneLen(s[i]) = 3})
           + 3 * Cardinality({i \in 1..Len(s) : RuneLen(s[i]) = 4})

\* how `for _, char := range chunk` decodes one element of a chunk:
\* a byte that is not valid UTF-8 is read as U+FFFD
DecodeRune(b) == IF b = "BAD" THEN "FFFD" ELSE b

----------------------------------------------------------------------------
(* Helpers of package strings *)

RECURSIVE DropLeft(_, _)
DropLeft(s, cut) ==
    IF s # <<>> /\ Head(s) \in cut THEN DropLeft(Tail(s), cut) ELSE s

\* a trim that leaves the end of the string as it is
DropNothing(s, cutset) == s

RECURSIVE DropRight(_, _)
DropRight(s, cut) ==
    IF s # <<>> /\ s[Len(s)] \in cut
    THEN DropRight(SubSeq(s, 1, Len(s) - 1), cut)
    ELSE s

SpaceRunes == {" ", "TAB", "LF", "VT", "CR"}

\* a trim that keeps the white space
TrimNothing(s) == s

\* strings.TrimSpace
TrimSpace(s) == DropRight(DropLeft(s, SpaceRunes), SpaceRunes)

\* strings.TrimLeft(s, " \t\n\r")
TrimLeftCutset(s) == DropLeft(s, {" ", "TAB", "LF", "CR"})

\* strings.Count(s, r) for a one-rune pattern
CountRune(s, r) == Cardinality({i \in 1..Len(s) : s[i] = r})

\* strings.HasPrefix
HasPrefix(s, p) == Len(s) >= Len(p) /\ SubSeq(s, 1, Len(p)) = p

\* strings.HasSuffix
HasSuffix(s, p) == Len(s) >= Len(p) /\ SubSeq(s, Len(s) - Len(p) + 1, Len(s)) = p

\* the k-th smallest element of a finite set of integers, k in 1..Cardinality(S)
Nth(S, k) == CHOOSE x \in S : Cardinality({y \in S : y <= x}) = k

\* strings.Split(s, sep) for a one-rune separator: the parts between
\* consecutive occurrences of sep (one part more than occurrences)
Split(s, sep) ==
    LET seps  == {i \in 1..Len(s) : s[i] = sep}
        n     == Cardinality(seps)
        at(k) == IF k = 0 THEN 0 ELSE IF k = n + 1 THEN Len(s) + 1 ELSE Nth(seps, k)
    IN  [k \in 1..(n + 1) |-> SubSeq(s, at(k - 1) + 1, at(k) - 1)]

\* strings.Join(parts, sep) for a one-rune separator
RECURSIVE Join(_, _)
Join(parts, sep) ==
    IF parts = <<>> THEN <<>>
    ELSE IF Len(parts) = 1 THEN parts[1]
    ELSE parts[1] \o <<sep>> \o Join(Tail(parts), sep)

\* the concatenation of a sequence of strings
RECURSIVE Concat(_)
Concat(parts) == IF parts = <<>> THEN <<>> ELSE Head(parts) \o Concat(Tail(parts))

RECURSIVE FilterOut(_, _)
FilterOut(s, drop) ==
    IF s = <<>> THEN <<>>
    ELSE IF Head(s) \in drop THEN FilterOut(Tail(s), drop)
    ELSE <<Head(s)>> \o FilterOut(Tail(s), drop)

----------------------------------------------------------------------------
(* text_utils.go: table-line detection and cleanup *)

\* detectTableLine
detectTableLine(line) ==
    LET trimmed    == TrimSpace(line)
        pipeCount  == CountRune(trimmed, "|")
        tabCount   == CountRune(trimmed, "TAB")
        tableChars == pipeCount + CountRune(trimmed, "+")
                      + CountRune(trimmed, "-") + CountRune(trimmed, "=")
        lineLen    == ByteLen(trimmed)
    IN  IF trimmed = <<>> THEN FALSE
        ELSE \/ pipeCount >= 2
             \/ tabCount >= 2
             \/ (lineLen > 0 /\ 2 * tableChars > lineLen)
             \/ (lineLen > 3 /\ \A i \in 1..Len(trimmed) :
                     trimmed[i] \in {"-", "=", "_", "+", "|", " ", "TAB"})
             \/ (trimmed[1] = "|" /\ trimmed[Len(trimmed)] = "|")

\* stripHTTPURLs
HttpPrefix == <<"h","t","t","p",":","/","/">>

HttpsPrefix == <<"h","t","t","p","s",":","/","/">>

RECURSIVE KeepNonURLs(_)
KeepNonURLs(words) ==
    IF words = <<>> THEN <<>>
    ELSE IF ~HasPrefix(Head(words), HttpPrefix) /\ ~HasPrefix(Head(words), HttpsPrefix)
    THEN <<Head(words)>> \o KeepNonURLs(Tail(words))
    ELSE KeepNonURLs(Tail(words))

stripHTTPURLs(text) == Join(KeepNonURLs(Split(text, " ")), " ")

\* normalizeNewlines
RECURSIVE NormalizeLoop(_, _, _)
NormalizeLoop(lines, emptyLineCount, result) ==
    IF lines = <<>> THEN result
    ELSE IF TrimSpace(Head(lines)) = <<>>
    THEN NormalizeLoop(Tail(lines), emptyLineCount + 1,
                       IF emptyLineCount + 1 <= 1 THEN Append(result, Head(lines))
                       ELSE result)
    ELSE NormalizeLoop(Tail(lines), 0, Append(result, Head(lines)))

normalizeNewlines(text) == Join(NormalizeLoop(Split(text, "LF"), 0, <<>>), "LF")

\* isEmojiRune, on the runes of the model
isEmojiRune(r) == r = "EMOJI"

\* stripEmojis
stripEmojis(text) == FilterOut(text, {"EMOJI"})

\* stripTableStructures
RECURSIVE StripTableLoop(_, _)
StripTableLoop(lines, cleanedLines) ==
    IF lines = <<>> THEN cleanedLines
    ELSE IF detectTableLine(Head(lines))
    THEN StripTableLoop(Tail(lines),
                        IF Len(cleanedLines) > 0 /\ cleanedLines[Len(cleanedLines)] # <<>>
                        THEN Append(cleanedLines, <<>>)
                        ELSE cleanedLines)
    ELSE StripTableLoop(Tail(lines), Append(cleanedLines, Head(lines)))

stripTableStructures(text) ==
    normalizeNewlines(Join(StripTableLoop(Split(text, "LF"), <<>>), "LF"))

\* the cleanup flags, as the set of the flags that are set
CleanupNone == {}

CleanupAll == {"CleanupLinks", "CleanupEmojis", "CleanupTable", "StripText"}

\* CleanText: table, then links, then emojis, then trim
CleanText(text, flags) ==
    LET r1 == IF "CleanupTable" \in flags THEN stripTableStructures(text) ELSE text
        r2 == IF "CleanupLinks" \in flags THEN stripHTTPURLs(r1) ELSE r1
        r3 == IF "CleanupEmojis" \in flags THEN stripEmojis(r2) ELSE r2
    IN  IF "StripText" \in flags THEN TrimSpace(r3) ELSE r3

----------------------------------------------------------------------------
(* tokenizer.go: the boundary classifier.  Positions are 0-based as in    *)
(* the code; runes[pos] of the code is runes[pos + 1] here.               *)

commonAbbreviations ==
    { <<"M","r">>, <<"M","r","s">>, <<"M","s">>, <<"D","r">>,
      <<"P","r","o","f">>, <<"R","e","v">>, <<"S","t">>,
      <<"J","r">>, <<"S","r">>, <<"I","n","c">>, <<"L","t","d">>,
      <<"C","o","r","p">>, <<"C","o">>, <<"A","v","e">>, <<"B","l","v","d">>,
      <<"v","s">>, <<"e","t","c">>, <<"i","e">>, <<"e","g">>,
      <<"a","m">>, <<"p","m">> }

At(runes, pos) == runes[pos + 1]

\* isInsideTableCell
RECURSIVE LineStart(_, _)
LineStart(runes, p) ==
    IF p > 0 /\ At(runes, p - 1) # "LF" THEN LineStart(runes, p - 1) ELSE p

RECURSIVE LineEnd(_, _)
LineEnd(runes, p) ==
    IF p < Len(runes) - 1 /\ At(runes, p + 1) # "LF" THEN LineEnd(runes, p + 1) ELSE p

isInsideTableCell(runes, pos) ==
    LET lineStart == LineStart(runes, pos)
        lineEnd   == LineEnd(runes, pos)
        line      == SubSeq(runes, lineStart + 1, lineEnd + 1)
        pipesBefore == Cardinality({i \in lineStart..(pos - 1) : At(runes, i) = "|"})
        pipesAfter  == Cardinality({i \in (pos + 1)..lineEnd : At(runes, i) = "|"})
    IN  detectTableLine(line) /\ pipesBefore > 0 /\ pipesAfter > 0

\* isAbbreviation
RECURSIVE LetterRunStart(_, _)
LetterRunStart(runes, start) ==
    IF start >= 0 /\ IsLetter(At(runes, start))
    THEN LetterRunStart(runes, start - 1)
    ELSE start + 1

isAbbreviation(runes, dotPos) ==
    IF dotPos < 2 THEN FALSE
    ELSE LET start  == LetterRunStart(runes, dotPos - 1)
             abbrev == SubSeq(runes, start + 1, dotPos)
         IN  IF start >= dotPos THEN FALSE
             ELSE abbrev \in commonAbbreviations
                  \/ ToLower(abbrev) \in commonAbbreviations

\* a search that finds nothing after the delimiter
findNextNonSpaceNone(runes, start) == -1

\* findNextNonSpace
RECURSIVE findNextNonSpace(_, _)
findNextNonSpace(runes, start) ==
    IF start >= Len(runes) THEN -1
    ELSE IF ~IsSpace(At(runes, start)) THEN start
    ELSE findNextNonSpace(runes, start + 1)

DigitBeforeAndAfter(runes, pos) ==
    /\ pos > 0
    /\ pos < Len(runes) - 1
    /\ IsDigit(At(runes, pos - 1))
    /\ IsDigit(At(runes, pos + 1))

\* a classifier that takes no delimiter for the end of a sentence
isEndOfSentenceNever(runes, pos) == FALSE

\* isEndOfSentence
isEndOfSentence(runes, pos) ==
    LET current      == At(runes, pos)
        nextNonSpace == findNextNonSpace(runes, pos + 1)
    IN  IF isInsideTableCell(runes, pos) THEN FALSE
        ELSE IF current = "." /\ DigitBeforeAndAfter(runes, pos) THEN FALSE
        ELSE IF current = "." /\ pos > 0 /\ isAbbreviation(runes, pos) THEN FALSE
        ELSE IF current = "." /\ nextNonSpace = -1 THEN TRUE
        ELSE IF current = "." /\ IsUpper(At(runes, nextNonSpace)) THEN TRUE
        ELSE IF current = "." /\ IsLower(At(runes, nextNonSpace)) THEN FALSE
        ELSE IF current = "," /\ DigitBeforeAndAfter(runes, pos) THEN FALSE
        ELSE TRUE

\* TokenizeSentencesWithDelimiters.  The loop closes the current sentence
\* at every rune that is a delimiter and isEndOfSentence, and once more at
\* the end of the text; a sentence that is empty after TrimSpace is dropped.
\* closes: the 0-based positions where a sentence is closed.
TokenizeSentencesWithDelimiters(text, delimiters) ==
    LET ends   == {i \in 0..(Len(text) - 1) :
                      At(text, i) \in delimiters /\ isEndOfSentence(text, i)}
        closes == ends \cup {Len(text) - 1}
        from(e) == IF \E b \in ends : b < e
                   THEN 1 + CHOOSE b \in ends :
                                b < e /\ \A x \in ends : x < e => x <= b
                   ELSE 0
        sentence(e) == TrimSpace(SubSeq(text, from(e) + 1, e + 1))
        kept   == {e \in closes : sentence(e) # <<>>}
    IN  IF text = <<>> THEN <<>>
        ELSE [k \in 1..Cardinality(kept) |-> sentence(Nth(kept, k))]

----------------------------------------------------------------------------
(* The SentenceSplitter (sentence_splitter part of avoid_pause_words.go) *)

\* QuickYieldMode
NoQuickYield == "NoQuickYield"

QuickYieldFirstFragment == "QuickYieldFirstFragment"

QuickYieldAllFragments == "QuickYieldAllFragments"

\* the delimiter strings of DefaultConfig, as sets of runes
DefaultFragmentDelimiters ==
    {".", "?", "!", ";", ":", ",", "LF", "ELLIPSIS", ")", "]", "}", "CJKDOT", "-"}

DefaultFullDelimiters == {".", "?", "!", "LF", "ELLIPSIS", "CJKDOT"}

\* DefaultConfig
DefaultConfig ==
    [ContextSize                |-> 12,
     MinimumSentenceLength      |-> 10,
     MinimumFirstFragmentLength |-> 10,
     QuickYieldMode             |-> QuickYieldAllFragments,
     CleanupOptions             |-> CleanupAll,
     SentenceFragmentDelimiters |-> DefaultFragmentDelimiters,
     FullSentenceDelimiters     |-> DefaultFullDelimiters]

\* no coalescing at all: every span stays as the tokenizer cut it
combineNothing(sentences, minimumSentenceLength) == sentences

\* combineSentences: the loop body, then the leftover
RECURSIVE CombineLoop(_, _, _, _)
CombineLoop(sentences, minimumSentenceLength, tempSentence, combined) ==
    IF sentences = <<>>
    THEN IF tempSentence # <<>> THEN Append(combined, TrimSpace(tempSentence))
         ELSE combined
    ELSE LET sentence == Head(sentences)
         IN  IF ByteLen(sentence) < minimumSentenceLength
             THEN CombineLoop(Tail(sentences), minimumSentenceLength,
                              tempSentence \o sentence \o <<" ">>, combined)
             ELSE CombineLoop(Tail(sentences), minimumSentenceLength, <<>>,
                              Append(combined, TrimSpace(tempSentence \o sentence)))

combineSentences(sentences, minimumSentenceLength) ==
    IF Len(sentences) <= 1 THEN sentences
    ELSE CombineLoop(sentences, minimumSentenceLength, <<>>, <<>>)

\* one string sent on a result channel: the cleaned text, and for the
\* properties the text before cleanup and the statement that sent it
Emission(raw, kind, c) ==
    [text |-> CleanText(raw, c.CleanupOptions), raw |-> raw, kind |-> kind]

RECURSIVE Emissions(_, _, _)
Emissions(raws, kind, c) ==
    IF raws = <<>> THEN <<>>
    ELSE <<Emission(Head(raws), kind, c)>> \o Emissions(Tail(raws), kind, c)

RECURSIVE SumByteLen(_)
SumByteLen(ss) == IF ss = <<>> THEN 0 ELSE ByteLen(Head(ss)) + SumByteLen(Tail(ss))

AllButLast(ss) == SubSeq(ss, 1, Len(ss) - 1)

\* a quick-yield that does not look at the length of the buffer
QuickYieldAnyLength(s, c, bufferStr, char) ==
    /\ s.isFirstSentence
    /\ c.QuickYieldMode \in {QuickYieldFirstFragment, QuickYieldAllFragments}
    /\ char \in c.SentenceFragmentDelimiters

\* a quick-yield that does not look at the first-sentence flag
QuickYieldIgnoresFlag(s, c, bufferStr, char) ==
    /\ ByteLen(bufferStr) > c.MinimumFirstFragmentLength
    /\ c.QuickYieldMode \in {QuickYieldFirstFragment, QuickYieldAllFragments}
    /\ char \in c.SentenceFragmentDelimiters

\* a quick-yield that asks the classifier about the delimiter
QuickYieldAtSentenceEnd(s, c, bufferStr, char) ==
    /\ s.isFirstSentence
    /\ ByteLen(bufferStr) > c.MinimumFirstFragmentLength
    /\ c.QuickYieldMode \in {QuickYieldFirstFragment, QuickYieldAllFragments}
    /\ char \in c.SentenceFragmentDelimiters
    /\ isEndOfSentence(bufferStr, Len(bufferStr) - 1)

\* the quick-yield condition of Stream
QuickYieldCondition(s, c, bufferStr, char) ==
    /\ s.isFirstSentence
    /\ ByteLen(bufferStr) > c.MinimumFirstFragmentLength
    /\ c.QuickYieldMode \in {QuickYieldFirstFragment, QuickYieldAllFragments}
    /\ char \in c.SentenceFragmentDelimiters

\* a quick-yield that leaves the first-sentence flag as it is
QuickYieldStaysFirst(s, c, bufferStr) ==
    [buffer                |-> <<>>,
     isFirstSentence       |-> s.isFirstSentence,
     wordCount             |-> 0,
     lastDelimiterPosition |-> s.lastDelimiterPosition,
     out                   |-> <<Emission(bufferStr, "quick", c)>>]

\* what the quick-yield branch leaves: the buffer is emitted whole
QuickYieldStep(s, c, bufferStr) ==
    [buffer                |-> <<>>,
     isFirstSentence       |-> FALSE,
     wordCount             |-> 0,
     lastDelimiterPosition |-> s.lastDelimiterPosition,
     out                   |-> <<Emission(bufferStr, "quick", c)>>]

\* a decision that looks for the delimiter in the last contextSize bytes
shouldProcessTrailing(sentences, lastDelimiterPosition, bufferLen, contextSize) ==
    \/ Len(sentences) > 2
    \/ /\ lastDelimiterPosition >= 0
       /\ bufferLen - contextSize <= lastDelimiterPosition
       /\ lastDelimiterPosition <= bufferLen - 1

\* shouldProcess
shouldProcess(sentences, lastDelimiterPosition, bufferLen, contextSize) ==
    LET contextWindowEndPos   == bufferLen - contextSize - 1
        windowStart           == contextWindowEndPos - contextSize
        contextWindowStartPos == IF windowStart < 0 THEN 0 ELSE windowStart
    IN  \/ Len(sentences) > 2
        \/ /\ lastDelimiterPosition >= 0
           /\ contextWindowStartPos <= lastDelimiterPosition
           /\ lastDelimiterPosition <= contextWindowEndPos

\* a step-3 emission that keeps nothing: the unfinished last span is lost
BufferAfterYieldNothing(bufferStr, sentences) == <<>>

\* the buffer after a step-3 emission
BufferAfterYield(bufferStr, sentences) ==
    sentences[Len(sentences)]
        \o (IF HasSuffix(bufferStr, <<" ">>) THEN <<" ">> ELSE <<>>)

\* the part of the loop body of Stream after the quick-yield branch
ContextStep(s, c, bufferStr, wordCount, char) ==
    LET lastPos   == IF char \in c.FullSentenceDelimiters
                     THEN ByteLen(bufferStr) - 1
                     ELSE s.lastDelimiterPosition
        sentences == combineSentences(
                         TokenizeSentencesWithDelimiters(bufferStr,
                                                         c.SentenceFragmentDelimiters),
                         c.MinimumSentenceLength)
        keep      == [buffer                |-> bufferStr,
                      isFirstSentence       |-> s.isFirstSentence,
                      wordCount             |-> wordCount,
                      lastDelimiterPosition |-> lastPos,
                      out                   |-> <<>>]
    IN  IF /\ shouldProcess(sentences, lastPos, ByteLen(bufferStr), c.ContextSize)
           /\ Len(sentences) > 1
           /\ SumByteLen(AllButLast(sentences)) >= c.MinimumSentenceLength
        THEN [buffer                |-> BufferAfterYield(bufferStr, sentences),
              isFirstSentence       |-> IF c.QuickYieldMode = QuickYieldAllFragments
                                        THEN TRUE ELSE s.isFirstSentence,
              wordCount             |-> 0,
              lastDelimiterPosition |-> -1,
              out                   |-> Emissions(AllButLast(sentences), "step3", c)]
        ELSE keep

\* a loop body that goes to step 3 however short the buffer is
ScanCharNoThreshold(s, c, char) ==
    IF char = "NUL" THEN [s EXCEPT !.out = <<>>]
    ELSE
    LET bufferStr == TrimLeftCutset(Append(s.buffer, char))
        wordCount == IF IsSpace(char) \/ char \in c.SentenceFragmentDelimiters
                     THEN s.wordCount + 1 ELSE s.wordCount
    IN  IF QuickYieldCondition(s, c, bufferStr, char)
        THEN QuickYieldStep(s, c, bufferStr)
        ELSE ContextStep(s, c, bufferStr, wordCount, char)

\* the body of `for _, char := range chunk` in Stream, for one rune:
\* s is the splitter's state, the result is its state after the rune and
\* the strings sent on the result channel, in order
ScanChar(s, c, char) ==
    IF char = "NUL" THEN [s EXCEPT !.out = <<>>]
    ELSE
    LET bufferStr == TrimLeftCutset(Append(s.buffer, char))
        wordCount == IF IsSpace(char) \/ char \in c.SentenceFragmentDelimiters
                     THEN s.wordCount + 1 ELSE s.wordCount
    IN  IF QuickYieldCondition(s, c, bufferStr, char)
        THEN QuickYieldStep(s, c, bufferStr)
        ELSE IF ByteLen(bufferStr) <= c.MinimumSentenceLength + c.ContextSize
        THEN [buffer                |-> bufferStr,
              isFirstSentence       |-> s.isFirstSentence,
              wordCount             |-> wordCount,
              lastDelimiterPosition |-> s.lastDelimiterPosition,
              out                   |-> <<>>]
        ELSE ContextStep(s, c, bufferStr, wordCount, char)

\* a Flush loop that sends every span as a unit of its own
RECURSIVE FlushLoopEach(_, _, _, _)
FlushLoopEach(sentences, c, sentenceBuffer, out) ==
    IF sentences = <<>> THEN out
    ELSE FlushLoopEach(Tail(sentences), c, <<>>,
                       Append(out, Emission(Head(sentences), "flush", c)))

\* Flush: the loop over the sentences of the buffer, then the leftover
RECURSIVE FlushLoop(_, _, _, _)
FlushLoop(sentences, c, sentenceBuffer, out) ==
    IF sentences = <<>>
    THEN IF sentenceBuffer # <<>> THEN Append(out, Emission(sentenceBuffer, "flush", c))
         ELSE out
    ELSE LET sb == sentenceBuffer \o Head(sentences)
         IN  IF ByteLen(sb) < c.MinimumSentenceLength
             THEN FlushLoop(Tail(sentences), c, sb \o <<" ">>, out)
             ELSE FlushLoop(Tail(sentences), c, <<>>,
                            Append(out, Emission(sb, "flush", c)))

\* a Flush that sends nothing
FlushNothing(bufferStr, c) == <<>>

\* the strings Flush sends, in order, for the buffer it finds
FlushOutput(bufferStr, c) ==
    IF ByteLen(bufferStr) > 0
    THEN FlushLoop(TokenizeSentencesWithDelimiters(bufferStr,
                                                   c.SentenceFragmentDelimiters),
                   c, <<>>, <<>>)
    ELSE <<>>

\* NewSentenceSplitter: the internal state after construction
NewSplitterState ==
    [buffer                |-> <<>>,
     isFirstSentence       |-> TRUE,
     wordCount             |-> 0,
     lastDelimiterPosition |-> -1,
     out                   |-> <<>>]

----------------------------------------------------------------------------
(* Whole runs, as the code computes them rune by rune *)

\* Stream over the runes of input, from state s; out is what was sent so
\* far.  The state after each rune is computed once, as the value of the
\* bound n, before the scan goes on from it.
RECURSIVE ScanAll(_, _, _, _)
ScanAll(s, c, input, out) ==
    IF input = <<>> THEN [s EXCEPT !.out = out]
    ELSE LET rest(n) == ScanAll(n, c, Tail(input), out \o n.out)
         IN  CHOOSE r \in {rest(n) : n \in {ScanChar(s, c, DecodeRune(Head(input)))}} :
                 TRUE

\* Add, a drained Stream and a drained Flush on a new splitter with the
\* whole input as one chunk: every string emitted, in order
RunOneChunk(c, input) ==
    LET s == ScanAll(NewSplitterState, c, input, <<>>)
    IN  s.out \o FlushOutput(s.buffer, c)

Texts(emissions) == [i \in 1..Len(emissions) |-> emissions[i].text]

----------------------------------------------------------------------------
(* Inputs: the texts of the repository's tests under the configurations   *)
(* the tests use, and every text up to MaxLen runes over small alphabets  *)
(* under configurations small enough for such texts to be emitted by      *)
(* every branch of Stream.                                                *)

\* 'The price is $12.50 per item. Total came to 1,234.56 dollars.'
PriceText ==
    <<"T", "h", "e", " ", "p", "r", "i", "c", "e", " ", "i", "s", " ", "$",
      "1", "2", ".", "5", "0", " ", "p", "e", "r", " ", "i", "t", "e", "m",
      ".", " ", "T", "o", "t", "a", "l", " ", "c", "a", "m", "e", " ", "t",
      "o", " ", "1", ",", "2", "3", "4", ".", "5", "6", " ", "d", "o", "l",
      "l", "a", "r", "s", ".">>

\* 'Dr. Smith went to U.S.A. He met Mr. Johnson.'
AbbreviationText ==
    <<"D", "r", ".", " ", "S", "m", "i", "t", "h", " ", "w", "e", "n", "t",
      " ", "t", "o", " ", "U", ".", "S", ".", "A", ".", " ", "H", "e", " ",
      "m", "e", "t", " ", "M", "r", ".", " ", "J", "o", "h", "n", "s", "o",
      "n", ".">>

\* 'Hi. How are you? I am fine. Thanks for asking.'
ShortSentencesText ==
    <<"H", "i", ".", " ", "H", "o", "w", " ", "a", "r", "e", " ", "y", "o",
      "u", "?", " ", "I", " ", "a", "m", " ", "f", "i", "n", "e", ".", " ",
      "T", "h", "a", "n", "k", "s", " ", "f", "o", "r", " ", "a", "s", "k",
      "i", "n", "g", ".">>

\* 'This is a quick sentence fragment, and it should be yielded quickly.'
QuickYieldText ==
    <<"T", "h", "i", "s", " ", "i", "s", " ", "a", " ", "q", "u", "i", "c",
      "k", " ", "s", "e", "n", "t", "e", "n", "c", "e", " ", "f", "r", "a",
      "g", "m", "e", "n", "t", ",", " ", "a", "n", "d", " ", "i", "t", " ",
      "s", "h", "o", "u", "l", "d", " ", "b", "e", " ", "y", "i", "e", "l",
      "d", "e", "d", " ", "q", "u", "i", "c", "k", "l", "y", ".">>

\* the longest enumerated text, in runes
MaxLen == 3

\* the most chunks the owner lets wait in the queue before it calls Stream
MaxQueue == 2

QuickYieldModes == {NoQuickYield, QuickYieldFirstFragment, QuickYieldAllFragments}

Config(W, Lmin, Lfirst, mode, cleanup) ==
    [DefaultConfig EXCEPT !.ContextSize                = W,
                          !.MinimumSentenceLength      = Lmin,
                          !.MinimumFirstFragmentLength = Lfirst,
                          !.QuickYieldMode             = mode,
                          !.CleanupOptions             = cleanup]

\* every text of at most n runes over the alphabet
TextsUpTo(alphabet, n) == UNION {[1..k -> alphabet] : k \in 0..n}

Runs(configs, texts) == {[cfg |-> c, text |-> t] : c \in configs, t \in texts}

\* 'This is a sentence. And here's another! Yet, there's more. This ends now.'
BasicText ==
    <<"T", "h", "i", "s", " ", "i", "s", " ", "a", " ", "s", "e", "n", "t",
      "e", "n", "c", "e", ".", " ", "A", "n", "d", " ", "h", "e", "r", "e",
      "'", "s", " ", "a", "n", "o", "t", "h", "e", "r", "!", " ", "Y", "e",
      "t", ",", " ", "t", "h", "e", "r", "e", "'", "s", " ", "m", "o", "r",
      "e", ".", " ", "T", "h", "i", "s", " ", "e", "n", "d", "s", " ", "n",
      "o", "w", ".">>

\* the tests' inputs
TestRuns ==
    Runs({DefaultConfig}, {PriceText, AbbreviationText, BasicText})
    \cup Runs({[DefaultConfig EXCEPT !.MinimumSentenceLength = 15]},
              {ShortSentencesText})
    \cup Runs({[DefaultConfig EXCEPT !.QuickYieldMode = m] : m \in QuickYieldModes},
              {QuickYieldText})

\* 'Hi! I am. Ok, go on. Yes!'
SampleText ==
    <<"H", "i", "!", " ", "I", " ", "a", "m", ".", " ", "O", "k", ",", " ",
      "g", "o", " ", "o", "n", ".", " ", "Y", "e", "s", "!">>

\* 'First sentence is this one. Internally<TAB>it works.'
TabText ==
    <<"F", "i", "r", "s", "t", " ", "s", "e", "n", "t", "e", "n", "c", "e",
      " ", "i", "s", " ", "t", "h", "i", "s", " ", "o", "n", "e", ".", " ",
      "I", "n", "t", "e", "r", "n", "a", "l", "l", "y", "TAB", "i", "t", " ",
      "w", "o", "r", "k", "s", ".">>

\* 'I am. Ok'
AmText == <<"I", " ", "a", "m", ".", " ", "O", "k">>

\* 'aa! b aa!'
ShortFirstText == <<"a", "a", "!", " ", "b", " ", "a", "a", "!">>

\* longer inputs under other configurations
\* 'A!x<LF>am.X': a line feed before an abbreviation
LineFeedText == <<"A", "!", "x", "LF", "a", "m", ".", "X">>

SampleRuns ==
    Runs({Config(2, 3, 2, m, CleanupNone) : m \in QuickYieldModes}, {SampleText})
    \cup Runs({[DefaultConfig EXCEPT !.MinimumSentenceLength = 20]},
              {ShortSentencesText})
    \cup Runs({[DefaultConfig EXCEPT !.QuickYieldMode = NoQuickYield]}, {TabText})
    \cup Runs({Config(2, 3, 2, QuickYieldFirstFragment, CleanupNone)}, {AmText})
    \cup Runs({Config(1, 1, 3, QuickYieldFirstFragment, CleanupNone)}, {ShortFirstText})
    \cup Runs({Config(0, 0, 1, NoQuickYield, CleanupNone)}, {LineFeedText})

\* the enumerated inputs
SmallRuns ==
    Runs({Config(1, 1, 1, m, CleanupNone) : m \in QuickYieldModes},
         TextsUpTo({"a", " ", ".", "!"}, MaxLen))
    \cup Runs({Config(0, 2, 3, QuickYieldAllFragments, CleanupAll)},
              TextsUpTo({"A", "1", ".", ",", " "}, MaxLen))
    \cup Runs({Config(1, 0, 2, QuickYieldFirstFragment, CleanupNone)},
              TextsUpTo({"a", "!", "LF", "NUL", "BAD"}, MaxLen))

\* a splitter configured with an empty set of fragment delimiters
EmptyDelimiterRuns ==
    Runs({[Config(0, 2, 1, m, CleanupNone) EXCEPT !.SentenceFragmentDelimiters = {}] :
              m \in QuickYieldModes}
         \cup {[Config(0, 3, 0, QuickYieldAllFragments, CleanupAll)
                   EXCEPT !.SentenceFragmentDelimiters = {}]},
         TextsUpTo({"a", " ", ".", "NUL"}, MaxLen))

AllRuns == TestRuns \cup SampleRuns \cup SmallRuns \cup EmptyDelimiterRuns

----------------------------------------------------------------------------
(* The state *)

VARIABLES
    cfg,                    \* the SentenceSplitterConfig of the instance
    source,                 \* the whole input text of the run
    fed,                    \* how many elements of source were passed to Add
    inputBuffer,            \* s.inputBuffer: the queue of pending chunks
    chunk,                  \* Stream: the rest of the chunk being ranged over
    streaming,              \* a Stream call is running
    buffer,                 \* s.buffer
    isFirstSentence,        \* s.isFirstSentence
    wordCount,              \* s.wordCount
    lastDelimiterPosition,  \* s.lastDelimiterPosition
    emitted,                \* every string sent by Stream and Flush, in order
    flushed,                \* Flush has been called and drained
    split,                  \* the input was passed to Add in more than one chunk
    api,                    \* who drives the splitter: its owner or a generator
    generator,              \* the chunks waiting in the input channel
    closed,                 \* the input channel was closed
    pc,                     \* where the generator's goroutine stands
    pending,                \* Stream, Flush: strings computed and not yet sent
    streamChan,             \* the result channel of the running Stream or Flush
    hand,                   \* the sentence the goroutine received and has to send
    resultChan,             \* the result channel of the generator
    delivered,              \* what the consumer received, in order
    ctxDone,                \* the context was cancelled
    text,                   \* the string a direct call of the tokenizer is given
    delimiters,             \* the delimiter characters of that call
    spans,                  \* what the call returned
    returned,               \* the call has returned
    lookupTable,            \* the global map of a lookup table: <<>> is nil
    callers,                \* where each caller of the query function stands
    fatal                   \* the runtime has stopped the program

vars == <<cfg, source, fed, inputBuffer, chunk, streaming, buffer,
          isFirstSentence, wordCount, lastDelimiterPosition, emitted, flushed,
          split, api, generator, closed, pc, pending, streamChan, hand,
          resultChan, delivered, ctxDone, text, delimiters, spans, returned,
          lookupTable, callers, fatal>>

tokenizerVars == <<text, delimiters, spans, returned>>

lookupVars == <<lookupTable, callers, fatal>>

generatorVars == <<api, generator, closed, pc, pending, streamChan, hand,
                   resultChan, delivered, ctxDone>>

splitterVars == <<buffer, isFirstSentence, wordCount, lastDelimiterPosition>>

\* the splitter's internal state as ScanChar takes it
SplitterState ==
    [buffer                |-> buffer,
     isFirstSentence       |-> isFirstSentence,
     wordCount             |-> wordCount,
     lastDelimiterPosition |-> lastDelimiterPosition,
     out                   |-> <<>>]

\* NewSentenceSplitter, for one input of the run
Init ==
    /\ \E r \in AllRuns : cfg = r.cfg /\ source = r.text
    /\ fed = 0
    /\ inputBuffer = <<>>
    /\ chunk = <<>>
    /\ streaming = FALSE
    /\ buffer = NewSplitterState.buffer
    /\ isFirstSentence = NewSplitterState.isFirstSentence
    /\ wordCount = NewSplitterState.wordCount
    /\ lastDelimiterPosition = NewSplitterState.lastDelimiterPosition
    /\ emitted = <<>>
    /\ flushed = FALSE
    /\ split = FALSE
    /\ api = "SentenceSplitter"
    /\ generator = <<>>
    /\ closed = FALSE
    /\ pc = "none"
    /\ pending = <<>>
    /\ streamChan = <<>>
    /\ hand = <<>>
    /\ resultChan = <<>>
    /\ delivered = <<>>
    /\ ctxDone = FALSE
    /\ lookupTable = <<>>
    /\ callers = <<>>
    /\ fatal = FALSE
    /\ text = <<>>
    /\ delimiters = {}
    /\ spans = <<>>
    /\ returned = FALSE

\* a queue that hands out the newest chunk first
PushFront(queue, c) == <<c>> \o queue

\* s.inputBuffer.PushBack(chunk)
PushBack(queue, c) == Append(queue, c)

\* the lengths of the chunk the owner may pass next: one rune, two runes,
\* all the rest, or (on an empty queue) an empty chunk
ChunkLens ==
    {n \in {1, 2, Len(source) - fed} : n >= 1 /\ fed + n <= Len(source)}
    \cup (IF inputBuffer = <<>> THEN {0} ELSE {})

\* Add(chunk), by the owner while no Stream is running
Add(n) ==
    /\ ~streaming
    /\ ~flushed
    /\ Len(inputBuffer) < MaxQueue
    /\ inputBuffer' = PushBack(inputBuffer, SubSeq(source, fed + 1, fed + n))
    /\ fed' = fed + n
    /\ split' = (split \/ n < Len(source))
    /\ UNCHANGED <<cfg, source, chunk, streaming, splitterVars, emitted, flushed>>
    /\ UNCHANGED generatorVars
    /\ UNCHANGED tokenizerVars
    /\ UNCHANGED lookupVars

\* Stream(): the owner calls it and ranges over its channel
StreamCall ==
    /\ ~streaming
    /\ ~flushed
    /\ streaming' = TRUE
    /\ UNCHANGED <<cfg, source, fed, inputBuffer, chunk, splitterVars, emitted, flushed, split>>
    /\ UNCHANGED generatorVars
    /\ UNCHANGED tokenizerVars
    /\ UNCHANGED lookupVars

\* a Stream that takes the chunk added last
StreamTakesLastChunk ==
    /\ streaming
    /\ chunk = <<>>
    /\ inputBuffer # <<>>
    /\ chunk' = inputBuffer[Len(inputBuffer)]
    /\ inputBuffer' = SubSeq(inputBuffer, 1, Len(inputBuffer) - 1)
    /\ UNCHANGED <<cfg, source, fed, streaming, splitterVars, emitted, flushed, split>>
    /\ UNCHANGED generatorVars
    /\ UNCHANGED tokenizerVars
    /\ UNCHANGED lookupVars

\* Stream: `for s.inputBuffer.Len() > 0`: the front chunk is removed
StreamNextChunk ==
    /\ streaming
    /\ chunk = <<>>
    /\ inputBuffer # <<>>
    /\ chunk' = Head(inputBuffer)
    /\ inputBuffer' = Tail(inputBuffer)
    /\ UNCHANGED <<cfg, source, fed, streaming, splitterVars, emitted, flushed, split>>
    /\ UNCHANGED generatorVars
    /\ UNCHANGED tokenizerVars
    /\ UNCHANGED lookupVars

\* Stream: the body of `for _, char := range chunk` for the next rune
StreamScanChar ==
    /\ streaming
    /\ chunk # <<>>
    /\ LET n == ScanChar(SplitterState, cfg, DecodeRune(Head(chunk)))
       IN  /\ buffer' = n.buffer
           /\ isFirstSentence' = n.isFirstSentence
           /\ wordCount' = n.wordCount
           /\ lastDelimiterPosition' = n.lastDelimiterPosition
           /\ emitted' = emitted \o n.out
    /\ chunk' = Tail(chunk)
    /\ UNCHANGED <<cfg, source, fed, inputBuffer, streaming, flushed, split>>
    /\ UNCHANGED generatorVars
    /\ UNCHANGED tokenizerVars
    /\ UNCHANGED lookupVars

\* a Stream whose goroutine never closes the channel
StreamHangs == streaming /\ FALSE /\ UNCHANGED vars

\* Stream: the queue is empty, the channel is closed and the owner's range ends
StreamReturn ==
    /\ streaming
    /\ chunk = <<>>
    /\ inputBuffer = <<>>
    /\ streaming' = FALSE
    /\ UNCHANGED <<cfg, source, fed, inputBuffer, chunk, splitterVars, emitted, flushed, split>>
    /\ UNCHANGED generatorVars
    /\ UNCHANGED tokenizerVars
    /\ UNCHANGED lookupVars

\* Flush(), drained by the owner, once all the input was passed to Add
Flush ==
    /\ ~streaming
    /\ ~flushed
    /\ fed = Len(source)
    /\ emitted' = emitted \o FlushOutput(buffer, cfg)
    /\ flushed' = TRUE
    /\ UNCHANGED <<cfg, source, fed, inputBuffer, chunk, streaming, splitterVars, split>>
    /\ UNCHANGED generatorVars
    /\ UNCHANGED tokenizerVars
    /\ UNCHANGED lookupVars

Next ==
    \/ \E n \in ChunkLens : Add(n)
    \/ StreamCall
    \/ StreamNextChunk
    \/ StreamScanChar
    \/ StreamReturn
    \/ Flush

Spec == Init /\ [][Next]_vars

----------------------------------------------------------------------------
(* GenerateSentences and GenerateSentencesAsync: a goroutine that is the  *)
(* owner of a splitter, between an input channel and its result channel.  *)
(* Stream and Flush run in goroutines of their own and send on a channel  *)
(* the owner ranges over.                                                 *)

\* cap of the result channel of GenerateSentences and GenerateSentencesAsync
ChanCap == 10

\* cap of the result channel of Stream and of Flush
StreamChanCap == 10

\* '!!!!!!!!!!!!'
BangsText == [i \in 1..12 |-> "!"]

\* '!!!!!!!!!!!!!': Stream sends twelve strings for it when it comes as one
\* chunk, two more than its channel holds
LongBangsText == [i \in 1..13 |-> "!"]

\* the inputs of the generators
GeneratorRuns ==
    Runs({Config(0, 0, 0, QuickYieldFirstFragment, CleanupNone)},
         {BangsText, LongBangsText})
    \cup Runs({Config(2, 3, 2, QuickYieldAllFragments, CleanupNone)}, {SampleText})
    \cup Runs({Config(1, 1, 1, NoQuickYield, CleanupNone)},
              TextsUpTo({"a", "!"}, MaxLen))

InitGenerator ==
    /\ \E r \in GeneratorRuns : cfg = r.cfg /\ source = r.text
    /\ api \in {"GenerateSentences", "GenerateSentencesAsync"}
    /\ fed = 0
    /\ inputBuffer = <<>>
    /\ chunk = <<>>
    /\ streaming = FALSE
    /\ buffer = NewSplitterState.buffer
    /\ isFirstSentence = NewSplitterState.isFirstSentence
    /\ wordCount = NewSplitterState.wordCount
    /\ lastDelimiterPosition = NewSplitterState.lastDelimiterPosition
    /\ emitted = <<>>
    /\ flushed = FALSE
    /\ split = FALSE
    /\ generator = <<>>
    /\ closed = FALSE
    /\ pc = "select"
    /\ pending = <<>>
    /\ streamChan = <<>>
    /\ hand = <<>>
    /\ resultChan = <<>>
    /\ delivered = <<>>
    /\ ctxDone = FALSE
    /\ lookupTable = <<>>
    /\ callers = <<>>
    /\ fatal = FALSE
    /\ text = <<>>
    /\ delimiters = {}
    /\ spans = <<>>
    /\ returned = FALSE

\* the lengths of the chunk the caller may send next: one rune or all the rest
GeneratorChunkLens ==
    {n \in {1, Len(source) - fed} : n >= 1 /\ fed + n <= Len(source)}

\* the caller sends the next chunk on the input channel
GeneratorSend(n) ==
    /\ ~closed
    /\ Len(generator) < MaxQueue
    /\ generator' = Append(generator, SubSeq(source, fed + 1, fed + n))
    /\ fed' = fed + n
    /\ split' = (split \/ n < Len(source))
    /\ UNCHANGED <<cfg, source, inputBuffer, chunk, streaming, splitterVars,
                   emitted, flushed, api, closed, pc, pending, streamChan, hand,
                   resultChan, delivered, ctxDone>>
    /\ UNCHANGED tokenizerVars
    /\ UNCHANGED lookupVars

\* the caller closes the input channel after the last chunk
GeneratorClose ==
    /\ ~closed
    /\ fed = Len(source)
    /\ closed' = TRUE
    /\ UNCHANGED <<cfg, source, fed, inputBuffer, chunk, streaming, splitterVars,
                   emitted, flushed, split, api, generator, pc, pending,
                   streamChan, hand, resultChan, delivered, ctxDone>>
    /\ UNCHANGED tokenizerVars
    /\ UNCHANGED lookupVars

\* the goroutine receives a chunk: splitter.Add(chunk), then Stream() starts
\* its goroutine and the range over its channel begins.  Nothing else reads
\* the splitter while Stream runs, so its scan of the queued chunks is taken
\* at once: what is left of Stream is its sends, in pending.
WorkerReceive ==
    /\ pc = "select"
    /\ generator # <<>>
    /\ LET queue == PushBack(inputBuffer, Head(generator))
           s     == ScanAll(SplitterState, cfg, Concat(queue), <<>>)
       IN  /\ buffer' = s.buffer
           /\ isFirstSentence' = s.isFirstSentence
           /\ wordCount' = s.wordCount
           /\ lastDelimiterPosition' = s.lastDelimiterPosition
           /\ pending' = s.out
    /\ inputBuffer' = <<>>
    /\ generator' = Tail(generator)
    /\ streaming' = TRUE
    /\ pc' = "range"
    /\ UNCHANGED <<cfg, source, fed, chunk, emitted, flushed, split, api, closed,
                   streamChan, hand, resultChan, delivered, ctxDone>>
    /\ UNCHANGED tokenizerVars
    /\ UNCHANGED lookupVars

\* the goroutine finds the input channel closed: Flush() starts its
\* goroutine, which tokenizes the buffer, and the range over its channel begins
WorkerFlush ==
    /\ pc = "select"
    /\ generator = <<>>
    /\ closed
    /\ flushed' = TRUE
    /\ streaming' = TRUE
    /\ pending' = FlushOutput(buffer, cfg)
    /\ pc' = "range"
    /\ UNCHANGED <<cfg, source, fed, inputBuffer, chunk, splitterVars, emitted,
                   split, api, generator, closed, streamChan, hand, resultChan,
                   delivered, ctxDone>>
    /\ UNCHANGED tokenizerVars
    /\ UNCHANGED lookupVars

\* Stream, Flush: `resultChan <- yieldText`, which waits while the channel
\* is full
InnerSend ==
    /\ streaming
    /\ pending # <<>>
    /\ Len(streamChan) < StreamChanCap
    /\ streamChan' = Append(streamChan, Head(pending))
    /\ emitted' = Append(emitted, Head(pending))
    /\ pending' = Tail(pending)
    /\ UNCHANGED <<cfg, source, fed, inputBuffer, chunk, streaming, splitterVars,
                   flushed, split, api, generator, closed, pc, hand, resultChan,
                   delivered, ctxDone>>
    /\ UNCHANGED tokenizerVars
    /\ UNCHANGED lookupVars

\* Stream, Flush: the goroutine ends and its deferred close runs
InnerReturn ==
    /\ streaming
    /\ pending = <<>>
    /\ streaming' = FALSE
    /\ UNCHANGED <<cfg, source, fed, inputBuffer, chunk, splitterVars, emitted,
                   flushed, split, generatorVars>>
    /\ UNCHANGED tokenizerVars
    /\ UNCHANGED lookupVars

\* `for sentence := range ...`: the goroutine receives the next sentence
WorkerRange ==
    /\ pc = "range"
    /\ streamChan # <<>>
    /\ hand' = <<Head(streamChan)>>
    /\ streamChan' = Tail(streamChan)
    /\ pc' = "send"
    /\ UNCHANGED <<cfg, source, fed, inputBuffer, chunk, streaming, splitterVars,
                   emitted, flushed, split, api, generator, closed, pending,
                   resultChan, delivered, ctxDone>>
    /\ UNCHANGED tokenizerVars
    /\ UNCHANGED lookupVars

\* the range ends on the closed, empty channel: after Stream the goroutine
\* waits for the next chunk, after Flush it returns and closes resultChan
WorkerRangeEnd ==
    /\ pc = "range"
    /\ streamChan = <<>>
    /\ ~streaming
    /\ pc' = IF flushed THEN "done" ELSE "select"
    /\ UNCHANGED <<cfg, source, fed, inputBuffer, chunk, streaming, splitterVars,
                   emitted, flushed, split, api, generator, closed, pending,
                   streamChan, hand, resultChan, delivered, ctxDone>>
    /\ UNCHANGED tokenizerVars
    /\ UNCHANGED lookupVars

\* a send that never waits
CanSendAlways(queue) == TRUE

\* a send on the result channel can proceed
CanSend(queue) == Len(queue) < ChanCap

\* a send that loses the sentence
WorkerSendDrops ==
    /\ pc = "send"
    /\ hand' = <<>>
    /\ pc' = "range"
    /\ UNCHANGED <<cfg, source, fed, inputBuffer, chunk, streaming, splitterVars,
                   emitted, flushed, split, api, generator, closed, pending,
                   streamChan, resultChan, delivered, ctxDone>>
    /\ UNCHANGED tokenizerVars
    /\ UNCHANGED lookupVars

\* `resultChan <- sentence`, which waits while the channel is full
WorkerSend ==
    /\ pc = "send"
    /\ CanSend(resultChan)
    /\ resultChan' = Append(resultChan, hand[1])
    /\ hand' = <<>>
    /\ pc' = "range"
    /\ UNCHANGED <<cfg, source, fed, inputBuffer, chunk, streaming, splitterVars,
                   emitted, flushed, split, api, generator, closed, pending,
                   streamChan, delivered, ctxDone>>
    /\ UNCHANGED tokenizerVars
    /\ UNCHANGED lookupVars

\* only the sends are guarded
SendPointsOnly == {"send"}

\* the places of GenerateSentencesAsync where a select has a ctx.Done() case:
\* the receive from the input channel and the two sends
CancelPoints == {"select", "send"}

\* a ctx.Done() case that gives up the sentence in hand and goes on
CancelGoesOn == "range"

\* the ctx.Done() case of every select: `return`
CancelReturns == "cancelled"

\* GenerateSentencesAsync: a select takes its ctx.Done() case: the goroutine
\* returns and its deferred close runs
WorkerCancelled ==
    /\ api = "GenerateSentencesAsync"
    /\ ctxDone
    /\ pc \in CancelPoints
    /\ pc' = CancelReturns
    /\ UNCHANGED <<cfg, source, fed, inputBuffer, chunk, streaming, splitterVars,
                   emitted, flushed, split, api, generator, closed, pending,
                   streamChan, hand, resultChan, delivered, ctxDone>>
    /\ UNCHANGED tokenizerVars
    /\ UNCHANGED lookupVars

\* the consumer receives the next sentence
Consume ==
    /\ resultChan # <<>>
    /\ delivered' = Append(delivered, Head(resultChan))
    /\ resultChan' = Tail(resultChan)
    /\ UNCHANGED <<cfg, source, fed, inputBuffer, chunk, streaming, splitterVars,
                   emitted, flushed, split, api, generator, closed, pc, pending,
                   streamChan, hand, ctxDone>>
    /\ UNCHANGED tokenizerVars
    /\ UNCHANGED lookupVars

\* the caller cancels the context
Cancel ==
    /\ api = "GenerateSentencesAsync"
    /\ ~ctxDone
    /\ ctxDone' = TRUE
    /\ UNCHANGED <<cfg, source, fed, inputBuffer, chunk, streaming, splitterVars,
                   emitted, flushed, split, api, generator, closed, pc, pending,
                   streamChan, hand, resultChan, delivered>>
    /\ UNCHANGED tokenizerVars
    /\ UNCHANGED lookupVars

\* the steps of the generator's goroutine that start no Stream and no Flush
WorkerProceed ==
    \/ WorkerRange
    \/ WorkerRangeEnd
    \/ WorkerSend
    \/ WorkerCancelled

\* the steps of the goroutine of Stream or Flush
Inner ==
    \/ InnerSend
    \/ InnerReturn

NextGenerator ==
    \/ \E n \in GeneratorChunkLens : GeneratorSend(n)
    \/ GeneratorClose
    \/ WorkerReceive
    \/ WorkerFlush
    \/ WorkerProceed
    \/ Inner
    \/ Consume
    \/ Cancel

SpecGenerator == InitGenerator /\ [][NextGenerator]_vars

\* the scheduler runs every goroutine that can take a step: this is assumed
\* of the sends, the receives from Stream and Flush and the returns only.
\* The caller and the consumer may stop at any point.
SpecGeneratorFair ==
    /\ InitGenerator
    /\ [][NextGenerator]_vars
    /\ WF_vars(WorkerProceed)
    /\ WF_vars(Inner)

----------------------------------------------------------------------------
(* Direct calls of the boundary classifier *)

\* what stands before a delimiter in the texts below: nothing, a digit, a
\* letter, abbreviations of the list in several cases, an abbreviation at
\* the end of a longer word, and the start of a table row
BeforeDelimiter ==
    {<<>>, <<"1">>, <<"a">>, <<"D", "r">>, <<"d", "r">>, <<"D", "R">>,
     <<"e", "t", "c">>, <<"E", "T", "C">>, <<"x", "D", "r">>,
     <<" ", "D", "r">>, <<"|", "a">>}

\* what stands after it: nothing, a digit, a lower-case or an upper-case
\* letter, the same after a space, a space, a delimiter, the end of a table row
AfterDelimiter ==
    {<<>>, <<"5">>, <<"a">>, <<"A">>, <<" ", "a">>, <<" ", "A">>, <<" ", "5">>,
     <<" ">>, <<"!">>, <<"a", "|">>}

\* texts with one delimiter between the two
ClassifierTexts ==
    {b \o <<d>> \o a : b \in BeforeDelimiter, d \in {".", ",", "!"},
                       a \in AfterDelimiter}

\* the texts the tokenizer is called on
TokenizerTexts == TextsUpTo({"a", "A", " ", "LF", "."}, MaxLen) \cup ClassifierTexts

\* the delimiter strings it is called with
TokenizerDelimiters ==
    {DefaultFragmentDelimiters, DefaultFullDelimiters, {"."}, {}}

\* the variables of the splitter and of the generators, which a direct call
\* of the tokenizer does not touch
streamVars ==
    <<cfg, source, fed, inputBuffer, chunk, streaming, splitterVars, emitted,
      flushed, split, generatorVars>>

InitTokenizer ==
    /\ text \in TokenizerTexts
    /\ delimiters \in TokenizerDelimiters
    /\ spans = <<>>
    /\ returned = FALSE
    /\ cfg = DefaultConfig
    /\ source = <<>>
    /\ fed = 0
    /\ inputBuffer = <<>>
    /\ chunk = <<>>
    /\ streaming = FALSE
    /\ buffer = NewSplitterState.buffer
    /\ isFirstSentence = NewSplitterState.isFirstSentence
    /\ wordCount = NewSplitterState.wordCount
    /\ lastDelimiterPosition = NewSplitterState.lastDelimiterPosition
    /\ emitted = <<>>
    /\ flushed = FALSE
    /\ split = FALSE
    /\ api = "TokenizeSentencesWithDelimiters"
    /\ generator = <<>>
    /\ closed = FALSE
    /\ pc = "none"
    /\ pending = <<>>
    /\ streamChan = <<>>
    /\ hand = <<>>
    /\ resultChan = <<>>
    /\ delivered = <<>>
    /\ ctxDone = FALSE
    /\ lookupTable = <<>>
    /\ callers = <<>>
    /\ fatal = FALSE

\* TokenizeSentencesWithDelimiters(text, delimiters) is called and returns
TokenizeCall ==
    /\ ~returned
    /\ spans' = TokenizeSentencesWithDelimiters(text, delimiters)
    /\ returned' = TRUE
    /\ UNCHANGED <<text, delimiters>>
    /\ UNCHANGED streamVars
    /\ UNCHANGED lookupVars

NextTokenizer == TokenizeCall

SpecTokenizer == InitTokenizer /\ [][NextTokenizer]_vars

----------------------------------------------------------------------------
(* The lookup tables built at first use *)

\* avoid_pause_words.go: var conjunctions
conjunctions ==
    << <<"a","n","d">>, <<"o","r">>, <<"b","u","t">>, <<"s","o">>,
      <<"f","o","r">>, <<"n","o","r">>, <<"y","e","t">> >>

\* avoid_pause_words.go: var prepositions
prepositions ==
    << <<"i","n">>, <<"o","n">>, <<"a","t">>, <<"b","y">>,
      <<"w","i","t","h">>, <<"a","b","o","u","t">>, <<"o","f">>, <<"t","o">>,
      <<"f","o","r">>, <<"f","r","o","m">>, <<"a","s">>, <<"o","v","e","r">>,
      <<"u","n","d","e","r">>, <<"t","h","r","o","u","g","h">>,
      <<"b","e","t","w","e","e","n">>, <<"d","u","r","i","n","g">>,
      <<"t","h","e","r","e">> >>

\* avoid_pause_words.go: var articles
articles ==
    << <<"a">>, <<"a","n">>, <<"t","h","e">> >>

\* avoid_pause_words.go: var possessivesAndDemonstratives
possessivesAndDemonstratives ==
    << <<"m","y">>, <<"y","o","u","r">>, <<"h","i","s">>, <<"h","e","r">>,
      <<"i","t","s">>, <<"o","u","r">>, <<"t","h","e","i","r">>,
      <<"t","h","i","s">>, <<"t","h","a","t">>, <<"t","h","e","s","e">>,
      <<"t","h","o","s","e">> >>

\* avoid_pause_words.go: var auxiliaryVerbs
auxiliaryVerbs ==
    << <<"i","s">>, <<"a","r","e">>, <<"w","a","s">>, <<"w","e","r","e">>,
      <<"a","m">>, <<"b","e">>, <<"b","e","e","n">>, <<"b","e","i","n","g">>,
      <<"d","o">>, <<"d","o","e","s">>, <<"d","i","d">>, <<"h","a","v","e">>,
      <<"h","a","s">>, <<"h","a","d">>, <<"c","a","n">>,
      <<"c","o","u","l","d">>, <<"s","h","a","l","l">>,
      <<"s","h","o","u","l","d">>, <<"w","i","l","l">>,
      <<"w","o","u","l","d">>, <<"m","a","y">>, <<"m","i","g","h","t">>,
      <<"m","u","s","t">> >>

\* avoid_pause_words.go: var pronouns
pronouns ==
    << <<"I">>, <<"w","e">>, <<"y","o","u">>, <<"h","e">>, <<"s","h","e">>,
      <<"i","t">>, <<"t","h","e","y">>, <<"w","h","o">>, <<"w","h","o","m">>,
      <<"w","h","o","s","e">>, <<"w","h","i","c","h">>,
      <<"t","h","a","t">> >>

\* avoid_pause_words.go: var quantifiers
quantifiers ==
    << <<"s","o","m","e">>, <<"m","a","n","y">>, <<"f","e","w">>,
      <<"a","l","l">>, <<"a","n","y">>, <<"m","o","s","t">>,
      <<"m","u","c","h">>, <<"n","o","n","e">>,
      <<"s","e","v","e","r","a","l">> >>

\* avoid_pause_words.go: var adverbs
adverbs ==
    << <<"v","e","r","y">>, <<"t","o","o">>, <<"j","u","s","t">>,
      <<"q","u","i","t","e">>, <<"a","l","m","o","s","t">>,
      <<"n","e","a","r","l","y">>, <<"o","n","l","y">> >>

\* avoid_pause_words.go: var interrogatives
interrogatives ==
    << <<"w","h","a","t">>, <<"w","h","e","r","e">>, <<"w","h","e","n">>,
      <<"w","h","y">>, <<"h","o","w">> >>

\* avoid_pause_words.go: var subordinatingConjunctions
subordinatingConjunctions ==
    << <<"a","l","t","h","o","u","g","h">>, <<"b","e","c","a","u","s","e">>,
      <<"i","f">>, <<"s","i","n","c","e">>, <<"t","h","o","u","g","h">>,
      <<"w","h","i","l","e">>, <<"u","n","t","i","l">>,
      <<"u","n","l","e","s","s">> >>

\* var titlesAndAbbreviations of the ignore-prefix table
titlesAndAbbreviations ==
    << <<"M","r",".">>, <<"M","r","s",".">>, <<"M","s",".">>,
      <<"D","r",".">>, <<"P","r","o","f",".">>, <<"R","e","v",".">>,
      <<"S","t",".">>, <<"P","h",".","D",".">>, <<"P","h","d",".">>,
      <<"P","h","D",".">>, <<"M",".","D",".">>, <<"B",".","A",".">>,
      <<"M",".","A",".">>, <<"D",".","D",".","S",".">>, <<"J",".","D",".">>,
      <<"C","o",".">>, <<"C","o","r","p",".">>, <<"A","v","e",".">>,
      <<"B","l","v","d",".">>, <<"R","d",".">>, <<"M","t",".">>,
      <<"a",".","m",".">>, <<"p",".","m",".">>, <<"J","r",".">>,
      <<"S","r",".">>, <<"G","o","v",".">>, <<"G","e","n",".">>,
      <<"C","a","p","t",".">>, <<"L","t",".">>, <<"M","a","j",".">>,
      <<"C","o","l",".">>, <<"A","d","m",".">>, <<"C","m","d","r",".">>,
      <<"S","g","t",".">>, <<"C","p","l",".">>, <<"P","v","t",".">>,
      <<"U",".","S",".">>, <<"U",".","K",".">>, <<"v","s",".">>,
      <<"i",".","e",".">>, <<"e",".","g",".">>, <<"V","o","l",".">>,
      <<"A","r","t",".">>, <<"S","e","c",".">>, <<"C","h","a","p",".">>,
      <<"F","i","g",".">>, <<"R","e","f",".">>, <<"D","e","p","t",".">> >>

\* var datesAndTimes of the ignore-prefix table
datesAndTimes ==
    << <<"J","a","n",".">>, <<"F","e","b",".">>, <<"M","a","r",".">>,
      <<"A","p","r",".">>, <<"J","u","n",".">>, <<"J","u","l",".">>,
      <<"A","u","g",".">>, <<"S","e","p",".">>, <<"O","c","t",".">>,
      <<"N","o","v",".">>, <<"D","e","c",".">>, <<"M","o","n",".">>,
      <<"T","u","e",".">>, <<"W","e","d",".">>, <<"T","h","u",".">>,
      <<"F","r","i",".">>, <<"S","a","t",".">>, <<"S","u","n",".">> >>

\* var financialAbbreviations of the ignore-prefix table
financialAbbreviations ==
    << <<"I","n","c",".">>, <<"L","t","d",".">>, <<"C","o","r","p",".">>,
      <<"P","L","C",".">>, <<"L","L","C",".">>, <<"L","L","P",".">>,
      <<"P","/","E",".">>, <<"E","P","S",".">>, <<"N","A","V",".">>,
      <<"R","O","I",".">>, <<"R","O","A",".">>, <<"R","O","E",".">> >>

\* var countryAbbreviations of the ignore-prefix table
countryAbbreviations ==
    << <<"U",".","S",".","A",".">>, <<"U",".","K",".">>,
      <<"U",".","A",".","E",".">>, <<"P",".","R",".","C",".">>,
      <<"D",".","R",".","C",".">>, <<"R",".","O",".","C",".">>,
      <<"E",".","U",".">>, <<"U",".","N",".">>, <<"A",".","U",".">>,
      <<"U",".","S",".">>, <<"U",".","K",".">>, <<"E",".","U",".">>,
      <<"P",".","R",".","C",".">>, <<"D",".","R",".","C",".">>,
      <<"R",".","O",".","C",".">> >>

\* initAvoidPauseWords: allWords (relativePronouns is not appended)
allWords ==
    conjunctions \o prepositions \o articles \o possessivesAndDemonstratives
        \o auxiliaryVerbs \o pronouns \o quantifiers \o adverbs
        \o interrogatives \o subordinatingConjunctions

\* initDelimiterIgnorePrefixes: allPrefixes
allPrefixes ==
    titlesAndAbbreviations \o datesAndTimes \o financialAbbreviations
        \o countryAbbreviations

\* how many words of its list the model's initialisation loads
MaxWords == 3

\* the words the loop of the initialisation ranges over
LoadedWords ==
    LET all == IF api = "IsDelimiterIgnorePrefix" THEN allPrefixes ELSE allWords
    IN  SubSeq(all, 1, IF Len(all) < MaxWords THEN Len(all) ELSE MaxWords)

\* the table once an initialisation has run alone to its end
FullTable == UNION {{LoadedWords[i], ToLower(LoadedWords[i])} : i \in 1..Len(LoadedWords)}

\* IsAvoidPauseWord, IsDelimiterIgnorePrefix: the return statement
LookupIn(table, word) == word \in table \/ ToLower(word) \in table

\* the goroutines that call the query function
Callers == {"g1", "g2"}

\* the words they ask for: the first of the list, as it is and in upper
\* case, the last one loaded, and one that is in no list
QueryWords ==
    IF api = "IsDelimiterIgnorePrefix"
    THEN {<<"M","r",".">>, <<"M","R",".">>, LoadedWords[Len(LoadedWords)],
          <<"z","e","b","r","a">>}
    ELSE {<<"a","n","d">>, <<"A","N","D">>, LoadedWords[Len(LoadedWords)],
          <<"z","e","b","r","a">>}

InitLookup ==
    /\ api \in {"IsAvoidPauseWord", "IsDelimiterIgnorePrefix"}
    /\ lookupTable = <<>>
    /\ callers \in [Callers -> {[pc |-> "call", word |-> w, i |-> 0,
                                 result |-> FALSE, built |-> FALSE] :
                                    w \in QueryWords}]
    /\ fatal = FALSE
    /\ text = <<>>
    /\ delimiters = {}
    /\ spans = <<>>
    /\ returned = FALSE
    /\ cfg = DefaultConfig
    /\ source = <<>>
    /\ fed = 0
    /\ inputBuffer = <<>>
    /\ chunk = <<>>
    /\ streaming = FALSE
    /\ buffer = NewSplitterState.buffer
    /\ isFirstSentence = NewSplitterState.isFirstSentence
    /\ wordCount = NewSplitterState.wordCount
    /\ lastDelimiterPosition = NewSplitterState.lastDelimiterPosition
    /\ emitted = <<>>
    /\ flushed = FALSE
    /\ split = FALSE
    /\ generator = <<>>
    /\ closed = FALSE
    /\ pc = "none"
    /\ pending = <<>>
    /\ streamChan = <<>>
    /\ hand = <<>>
    /\ resultChan = <<>>
    /\ delivered = <<>>
    /\ ctxDone = FALSE

lookupFrame ==
    /\ UNCHANGED <<cfg, source, fed, inputBuffer, chunk, streaming, splitterVars,
                   emitted, flushed, split>>
    /\ UNCHANGED generatorVars
    /\ UNCHANGED tokenizerVars

\* init...: `if AvoidPauseWords != nil { return }`, read without a lock
initCheck(g) ==
    /\ ~fatal
    /\ callers[g].pc = "call"
    /\ callers' = [callers EXCEPT ![g].pc = IF lookupTable # <<>> THEN "lookup"
                                            ELSE "make"]
    /\ UNCHANGED <<lookupTable, fatal>>
    /\ lookupFrame

\* init...: `AvoidPauseWords = make(map[string]bool)`: the global names a new,
\* empty map from here on
initMake(g) ==
    /\ ~fatal
    /\ callers[g].pc = "make"
    /\ lookupTable' = <<{}>>
    /\ callers' = [callers EXCEPT ![g].pc = IF Len(LoadedWords) = 0 THEN "lookup"
                                            ELSE "fill",
                                  ![g].i = 1,
                                  ![g].built = TRUE]
    /\ UNCHANGED fatal
    /\ lookupFrame

\* init...: one round of the loop; both assignments go to the map the global
\* names now
initInsert(g) ==
    /\ ~fatal
    /\ callers[g].pc = "fill"
    /\ LET word == LoadedWords[callers[g].i]
       IN  lookupTable' = <<lookupTable[1] \cup {word, ToLower(word)}>>
    /\ callers' = [callers EXCEPT ![g].pc = IF callers[g].i = Len(LoadedWords)
                                            THEN "lookup" ELSE "fill",
                                  ![g].i = @ + 1]
    /\ UNCHANGED fatal
    /\ lookupFrame

\* IsAvoidPauseWord, IsDelimiterIgnorePrefix: the two reads of the map
Lookup(g) ==
    /\ ~fatal
    /\ callers[g].pc = "lookup"
    /\ callers' = [callers EXCEPT ![g].pc = "done",
                                  ![g].result = LookupIn(lookupTable[1], callers[g].word)]
    /\ UNCHANGED <<lookupTable, fatal>>
    /\ lookupFrame

\* a goroutine is in the loop that writes the map while another one writes or
\* reads it: the accesses are not ordered, and the runtime may stop the
\* program with "concurrent map writes" or "concurrent map read and map write"
ConcurrentMapAccess ==
    /\ ~fatal
    /\ \E g \in Callers : \E h \in Callers \ {g} :
           /\ callers[g].pc = "fill"
           /\ callers[h].pc \in {"fill", "lookup"}
    /\ fatal' = TRUE
    /\ UNCHANGED <<lookupTable, callers>>
    /\ lookupFrame

NextLookup ==
    \/ \E g \in Callers : initCheck(g)
    \/ \E g \in Callers : initMake(g)
    \/ \E g \in Callers : initInsert(g)
    \/ \E g \in Callers : Lookup(g)
    \/ ConcurrentMapAccess

SpecLookup == InitLookup /\ [][NextLookup]_vars

----------------------------------------------------------------------------
(* An owner that goes on using the splitter after Flush: Flush may be     *)
(* called at any time and again, and Add and Stream may follow it.  Here   *)
(* flushed says that Flush was the owner's last call.                      *)

\* how many strings the Flush calls of a run may send together
MaxFlushUnits == 4

ReuseRuns ==
    Runs({Config(0, 0, 1, m, CleanupNone) : m \in QuickYieldModes},
         TextsUpTo({"a", " ", "!"}, MaxLen))

InitReuse ==
    /\ \E r \in ReuseRuns : cfg = r.cfg /\ source = r.text
    /\ fed = 0
    /\ inputBuffer = <<>>
    /\ chunk = <<>>
    /\ streaming = FALSE
    /\ buffer = NewSplitterState.buffer
    /\ isFirstSentence = NewSplitterState.isFirstSentence
    /\ wordCount = NewSplitterState.wordCount
    /\ lastDelimiterPosition = NewSplitterState.lastDelimiterPosition
    /\ emitted = <<>>
    /\ flushed = FALSE
    /\ split = FALSE
    /\ api = "SentenceSplitter"
    /\ generator = <<>>
    /\ closed = FALSE
    /\ pc = "none"
    /\ pending = <<>>
    /\ streamChan = <<>>
    /\ hand = <<>>
    /\ resultChan = <<>>
    /\ delivered = <<>>
    /\ ctxDone = FALSE
    /\ lookupTable = <<>>
    /\ callers = <<>>
    /\ fatal = FALSE
    /\ text = <<>>
    /\ delimiters = {}
    /\ spans = <<>>
    /\ returned = FALSE

\* a Flush that empties the buffer it has sent
FlushClearsBuffer ==
    /\ ~streaming
    /\ Len(SelectSeq(emitted, LAMBDA e : e.kind = "flush"))
           + Len(FlushOutput(buffer, cfg)) <= MaxFlushUnits
    /\ emitted' = emitted \o FlushOutput(buffer, cfg)
    /\ flushed' = TRUE
    /\ buffer' = <<>>
    /\ UNCHANGED <<cfg, source, fed, inputBuffer, chunk, streaming, isFirstSentence,
                   wordCount, lastDelimiterPosition, split>>
    /\ UNCHANGED generatorVars
    /\ UNCHANGED tokenizerVars
    /\ UNCHANGED lookupVars

\* Flush(), drained by the owner, whatever was called before it
FlushAnyTime ==
    /\ ~streaming
    /\ Len(SelectSeq(emitted, LAMBDA e : e.kind = "flush"))
           + Len(FlushOutput(buffer, cfg)) <= MaxFlushUnits
    /\ emitted' = emitted \o FlushOutput(buffer, cfg)
    /\ flushed' = TRUE
    /\ UNCHANGED <<cfg, source, fed, inputBuffer, chunk, streaming, splitterVars, split>>
    /\ UNCHANGED generatorVars
    /\ UNCHANGED tokenizerVars
    /\ UNCHANGED lookupVars

\* Add(text) after a Flush
AddAfterFlush(n) ==
    /\ ~streaming
    /\ flushed
    /\ Len(inputBuffer) < MaxQueue
    /\ inputBuffer' = PushBack(inputBuffer, SubSeq(source, fed + 1, fed + n))
    /\ fed' = fed + n
    /\ split' = (split \/ n < Len(source))
    /\ flushed' = FALSE
    /\ UNCHANGED <<cfg, source, chunk, streaming, splitterVars, emitted>>
    /\ UNCHANGED generatorVars
    /\ UNCHANGED tokenizerVars
    /\ UNCHANGED lookupVars

\* Stream() after a Flush
StreamCallAfterFlush ==
    /\ ~streaming
    /\ flushed
    /\ streaming' = TRUE
    /\ flushed' = FALSE
    /\ UNCHANGED <<cfg, source, fed, inputBuffer, chunk, splitterVars, emitted, split>>
    /\ UNCHANGED generatorVars
    /\ UNCHANGED tokenizerVars
    /\ UNCHANGED lookupVars

NextReuse ==
    \/ \E n \in ChunkLens : Add(n)
    \/ StreamCall
    \/ StreamNextChunk
    \/ StreamScanChar
    \/ StreamReturn
    \/ FlushAnyTime
    \/ \E n \in ChunkLens : AddAfterFlush(n)
    \/ StreamCallAfterFlush

SpecReuse == InitReuse /\ [][NextReuse]_vars

----------------------------------------------------------------------------
(* Properties of a run by one owner: Add, Stream and Flush *)

\* every chunk was scanned by a drained Stream and Flush was drained
Drained == flushed /\ inputBuffer = <<>> /\ chunk = <<>>

NonSpace(s) == FilterOut(s, SpaceRunes)

Decoded(s) == [i \in 1..Len(s) |-> DecodeRune(s[i])]

\* the text of the run as Stream reads it: decoded rune by rune, without
\* the NUL runes it skips
Scanned(s) == FilterOut(Decoded(s), {"NUL"})

Raws(emissions) == [i \in 1..Len(emissions) |-> emissions[i].raw]

IsPrefix(s, t) == Len(s) <= Len(t) /\ SubSeq(t, 1, Len(s)) = s

\* s has p as a substring
Contains(s, p) == \E i \in 0..(Len(s) - Len(p)) : SubSeq(s, i + 1, i + Len(p)) = p

\* C1 as the spec states it: with cleanup disabled, after Add calls each
\* scanned by a drained Stream and one drained Flush, the emitted strings
\* concatenated in order, whitespace deleted, are exactly the added text
\* with whitespace deleted.
RoundTripOfInput ==
    (Drained /\ cfg.CleanupOptions = CleanupNone)
        => NonSpace(Concat(Texts(emitted))) = NonSpace(source)

\* C1, amended: the same equality holds against the text as Stream decodes
\* it, that is with every invalid byte read as U+FFFD and every NUL rune
\* left out: no other rune is dropped, duplicated or reordered.
RoundTripOfScannedInput ==
    (Drained /\ cfg.CleanupOptions = CleanupNone)
        => NonSpace(Concat(Texts(emitted))) = NonSpace(Scanned(source))

\* a drained run with units from the context-window step, whose remainder
\* went on to later units, over an input fed in several chunks
RoundTripWitness ==
    /\ Drained
    /\ cfg.CleanupOptions = CleanupNone
    /\ split
    /\ Len(emitted) >= 3
    /\ \E i \in 1..(Len(emitted) - 1) : emitted[i].kind = "step3"

\* the index in source of the last rune of the i-th emitted unit
UnitEnd(i) ==
    LET k   == Len(NonSpace(Concat(Raws(SubSeq(emitted, 1, i)))))
        idx == {j \in 1..Len(source) : ~IsSpace(source[j])}
    IN  IF k \in 1..Cardinality(idx) THEN Nth(idx, k) ELSE 0

\* the p-th rune of source is a '.' or ',' between two decimal digits
InsideNumber(p) ==
    /\ 1 < p /\ p < Len(source)
    /\ source[p] \in {".", ","}
    /\ IsDigit(source[p - 1])
    /\ IsDigit(source[p + 1])

PriceItem == SubSeq(PriceText, 1, 29)

PriceTotal == SubSeq(PriceText, 31, 61)

\* C2: with the default configuration no emitted unit ends at a '.' or ','
\* that stands between two decimal digits of the input, and the price text
\* of TestTokenizerWithNumbers gives exactly its two sentences.
NoUnitEndsInsideNumber ==
    (Drained /\ cfg = DefaultConfig)
        => /\ \A i \in 1..Len(emitted) : ~InsideNumber(UnitEnd(i))
           /\ source = PriceText => Texts(emitted) = <<PriceItem, PriceTotal>>

DrSmith == SubSeq(AbbreviationText, 1, 9)

USA == SubSeq(AbbreviationText, 19, 24)

\* C3: with the default configuration the abbreviation text of
\* TestTokenizerWithAbbreviations is emitted as one unit ending after
\* "Johnson.", so that the first unit holds "Dr. Smith" and "U.S.A.".
AbbreviationsNotSplit ==
    (Drained /\ cfg = DefaultConfig /\ source = AbbreviationText)
        => /\ Len(emitted) = 1
           /\ Contains(emitted[1].text, DrSmith)
           /\ Contains(emitted[1].text, USA)

\* C4: once Flush was drained, every rune passed to Add was emitted by a
\* Stream or by Flush, and no text is left in the queue of pending chunks.
FlushLeavesNothing ==
    flushed
        => /\ NonSpace(Scanned(Concat(inputBuffer) \o chunk)) = <<>>
           /\ NonSpace(Concat(Raws(emitted)))
                  = NonSpace(Scanned(SubSeq(source, 1, fed)))

\* C5: the strings emitted for a text do not depend on how the text was
\* cut into chunks: they are those of the run that adds it as one chunk.
ChunkingIsIrrelevant ==
    Drained => Texts(emitted) = Texts(RunOneChunk(cfg, source))

\* a drained run of several units whose input came in several chunks
ChunkingWitness ==
    /\ Drained
    /\ split
    /\ Len(source) > MaxLen
    /\ Len(emitted) >= 2

\* the run changes only MinimumSentenceLength of the default configuration
DefaultButMinimumLength ==
    cfg = [DefaultConfig EXCEPT !.MinimumSentenceLength = cfg.MinimumSentenceLength]

\* C6 as the spec states it: with all settings but MinimumSentenceLength
\* default, every unit of the run but the very last has at least
\* MinimumSentenceLength bytes.
AllButLastReachMinimum ==
    (Drained /\ DefaultButMinimumLength)
        => \A i \in 1..(Len(emitted) - 1) :
               ByteLen(emitted[i].text) >= cfg.MinimumSentenceLength

\* C6, amended: under any configuration, every unit but the very last that
\* was emitted by the context-window step or by Flush has, before cleanup,
\* at least MinimumSentenceLength bytes; quick-yield units may be shorter.
CoalescedUnitsReachMinimum ==
    \A i \in 1..(Len(emitted) - 1) :
        emitted[i].kind # "quick"
            => ByteLen(emitted[i].raw) >= cfg.MinimumSentenceLength

\* a run in which short spans were merged into a unit that is not the last
CoalescingWitness ==
    /\ Drained
    /\ cfg.MinimumSentenceLength >= 2
    /\ \E i \in 1..(Len(emitted) - 1) :
           /\ emitted[i].kind # "quick"
           /\ Len(TokenizeSentencesWithDelimiters(
                      emitted[i].raw, cfg.SentenceFragmentDelimiters)) >= 2

QuickYieldEnabled ==
    cfg.QuickYieldMode \in {QuickYieldFirstFragment, QuickYieldAllFragments}

\* C7 as the spec states it: with quick-yield enabled, the first unit of a
\* run that emits anything has at least MinimumFirstFragmentLength bytes.
FirstUnitReachesFirstLength ==
    (QuickYieldEnabled /\ Len(emitted) >= 1)
        => ByteLen(emitted[1].text) >= cfg.MinimumFirstFragmentLength

\* C7, amended: every unit the quick-yield branch emits, the first unit of
\* the run among them, has before cleanup more than
\* MinimumFirstFragmentLength bytes; a first unit that comes from the
\* context-window step or from Flush may be shorter.
QuickUnitsExceedFirstLength ==
    \A i \in 1..Len(emitted) :
        emitted[i].kind = "quick"
            => ByteLen(emitted[i].raw) > cfg.MinimumFirstFragmentLength

\* the first unit of a run was emitted by the quick-yield branch, after an
\* earlier fragment delimiter that came too early to yield
QuickYieldWitness ==
    /\ Len(emitted) >= 1
    /\ emitted[1].kind = "quick"
    /\ cfg.MinimumFirstFragmentLength >= 1
    /\ \E i \in 1..(Len(emitted[1].raw) - 1) :
           emitted[1].raw[i] \in cfg.SentenceFragmentDelimiters

----------------------------------------------------------------------------
(* Properties of GenerateSentences and GenerateSentencesAsync *)

\* what the consumer has received and will still find in the result channel
Deliverable == Texts(delivered \o resultChan)

\* what a run that is never cancelled delivers for the whole input
Uncancelled == Texts(RunOneChunk(cfg, source))

\* C8 as the spec states it: when GenerateSentencesAsync returned on the
\* cancellation signal, what the consumer gets is a strict prefix of what
\* the uncancelled run over the same input delivers.
CancelledIsStrictPrefix ==
    (api = "GenerateSentencesAsync" /\ pc = "cancelled")
        => /\ IsPrefix(Deliverable, Uncancelled)
           /\ Len(Deliverable) < Len(Uncancelled)

\* C8, amended: at every moment of a run of GenerateSentencesAsync,
\* cancelled or not, what the consumer gets is a prefix of what the
\* uncancelled run delivers, possibly all of it.
CancelledIsPrefix ==
    api = "GenerateSentencesAsync" => IsPrefix(Deliverable, Uncancelled)

\* a cancelled run that delivered some sentences and not all
TruncationWitness ==
    /\ api = "GenerateSentencesAsync"
    /\ pc = "cancelled"
    /\ resultChan = <<>>
    /\ Len(delivered) >= 2
    /\ Len(delivered) < Len(Uncancelled)

\* the goroutine of the generator has returned and closed resultChan
WorkerStopped == pc \in {"done", "cancelled"}

\* C9: once the context of GenerateSentencesAsync is cancelled, its
\* goroutine eventually returns and closes the result channel, whatever the
\* caller and the consumer do.
CancelStopsWorker ==
    (api = "GenerateSentencesAsync" /\ ctxDone) ~> WorkerStopped

\* the goroutine stopped on cancellation while the input channel was open
\* and empty and the consumer had left the result channel full
CancelStopsWitness ==
    /\ api = "GenerateSentencesAsync"
    /\ pc = "cancelled"
    /\ ~closed
    /\ generator = <<>>
    /\ Len(resultChan) = ChanCap
    /\ delivered = <<>>

\* C10: the result channel never holds more than its capacity, and as long
\* as the run is not cancelled every string the splitter has sent is, once
\* and in emission order, with the consumer, in the result channel, in the
\* goroutine's hand or in the channel of Stream or Flush.
BackpressureWithoutLoss ==
    /\ Len(resultChan) <= ChanCap
    /\ pc # "cancelled"
           => delivered \o resultChan \o hand \o streamChan = emitted

\* GenerateSentences waits with a sentence in hand on a full result channel
BackpressureWitness ==
    /\ api = "GenerateSentences"
    /\ pc = "send"
    /\ hand # <<>>
    /\ Len(resultChan) = ChanCap

\* C31: once GenerateSentencesAsync has returned on cancellation, the
\* goroutine of the Stream or Flush it was ranging over eventually ends
\* too, however many strings it has still to send.
CancelStopsInnerWorker ==
    (api = "GenerateSentencesAsync" /\ pc = "cancelled") ~> ~streaming

\* C32: as long as the context is not cancelled, GenerateSentencesAsync and
\* GenerateSentences do the same: the goroutine of either returns, and
\* closes the result channel, only after the input channel was closed and
\* emptied and the range over Flush has ended, and never leaves that state;
\* what the consumer has then got or finds in the channel is, for either,
\* the sequence the splitter gives for the configuration and the input.
AsyncEqualsSyncUncancelled ==
    /\ [][(~ctxDone' /\ pc' = "done" /\ pc # "done")
              => /\ WorkerRangeEnd
                 /\ closed /\ generator = <<>> /\ flushed
                 /\ streamChan = <<>> /\ hand = <<>> /\ ~streaming
         ]_vars
    /\ [][pc = "done" => pc' = "done"]_vars
    /\ []((~ctxDone /\ pc = "done")
              => /\ Deliverable = Uncancelled
                 /\ delivered \o resultChan = emitted)

\* GenerateSentencesAsync, never cancelled, has returned after an input sent
\* in several chunks, and the consumer has received its sentences
AsyncCompleteWitness ==
    /\ api = "GenerateSentencesAsync"
    /\ ~ctxDone
    /\ pc = "done"
    /\ split
    /\ resultChan = <<>>
    /\ Len(delivered) >= 2
    /\ Texts(delivered) = Uncancelled

----------------------------------------------------------------------------
(* Properties of the boundary classifier *)

\* no rune of s is in the set
NoRuneIn(s, set) == \A i \in 1..Len(s) : s[i] \notin set

\* t is s without the white space at its two ends
IsTrimOf(t, s) ==
    \E i \in 1..(Len(s) + 1) : \E j \in 0..Len(s) :
        /\ t = SubSeq(s, i, j)
        /\ \A k \in 1..(i - 1) : IsSpace(s[k])
        /\ \A k \in (j + 1)..Len(s) : IsSpace(s[k])
        /\ t # <<>> => ~IsSpace(s[i]) /\ ~IsSpace(s[j])

\* C11 as the spec states it: on a text with no rune of the delimiter set
\* the tokenizer returns exactly one span, the text without the white space
\* at its ends.
DelimiterFreeIsOneSpan ==
    (returned /\ NoRuneIn(text, delimiters))
        => Len(spans) = 1 /\ IsTrimOf(spans[1], text)

\* C11, amended: on a text with no rune of the delimiter set the tokenizer
\* returns the text without the white space at its ends as its only span
\* when that is not empty, and no span at all when the text is empty or all
\* white space.
DelimiterFreeIsOneSpanOrNone ==
    (returned /\ NoRuneIn(text, delimiters))
        => \/ Len(spans) = 1 /\ spans[1] # <<>> /\ IsTrimOf(spans[1], text)
           \/ spans = <<>> /\ \A i \in 1..Len(text) : IsSpace(text[i])

\* the tokenizer returned one span for a text that has white space at an
\* end and a rune that other delimiter sets hold
DelimiterFreeWitness ==
    /\ returned
    /\ NoRuneIn(text, delimiters)
    /\ Len(text) = MaxLen
    /\ IsSpace(text[1])
    /\ \E i \in 1..Len(text) : text[i] = "."
    /\ Len(spans) = 1

\* the places of the text, from 1, that hold a rune of the delimiter set
DelimiterPlaces == {i \in 1..Len(text) : text[i] \in delimiters}

\* the line of the text that holds place i is a table line
OnTableLine(i) ==
    detectTableLine(SubSeq(text, LineStart(text, i - 1) + 1, LineEnd(text, i - 1) + 1))

\* the longest run of letters that ends just before place i
LettersBefore(i) ==
    LET k == CHOOSE n \in 0..(i - 1) :
                 /\ \A j \in (i - n)..(i - 1) : IsLetter(text[j])
                 /\ n < i - 1 => ~IsLetter(text[i - n - 1])
    IN  SubSeq(text, i - k, i - 1)

\* there is a decimal digit just before and just after place i
DigitsAround(i) ==
    i > 1 /\ i < Len(text) /\ IsDigit(text[i - 1]) /\ IsDigit(text[i + 1])

\* the places after i that hold no white space
NonSpaceAfter(i) == {j \in (i + 1)..Len(text) : ~IsSpace(text[j])}

\* the rules for the delimiter at place i, the first that matches decides
RuleCascade(i) ==
    IF text[i] = "."
    THEN IF DigitsAround(i) THEN FALSE
         ELSE IF \/ LettersBefore(i) \in commonAbbreviations
                 \/ ToLower(LettersBefore(i)) \in commonAbbreviations THEN FALSE
         ELSE IF NonSpaceAfter(i) = {} THEN TRUE
         ELSE IF IsUpper(text[Nth(NonSpaceAfter(i), 1)]) THEN TRUE
         ELSE IF IsLower(text[Nth(NonSpaceAfter(i), 1)]) THEN FALSE
         ELSE TRUE
    ELSE IF text[i] = "," THEN ~DigitsAround(i)
    ELSE TRUE

\* C22: for every delimiter of the text that is on no table line the
\* classifier decides as the rules say, the first that matches deciding:
\* a period between two digits is no boundary; else a period after an
\* abbreviation of the list is none; else a period is a boundary unless the
\* next rune that is no white space is a lower-case letter; a comma is a
\* boundary unless it is between two digits; every other delimiter is one.
ClassifierFollowsCascade ==
    returned
        => \A i \in DelimiterPlaces :
               ~OnTableLine(i) => (isEndOfSentence(text, i - 1) <=> RuleCascade(i))

\* the tokenizer returned one span for a text whose period follows an
\* abbreviation and is followed by an upper-case letter: the rule of the
\* abbreviation decided before the rule of the next rune
CascadeWitness ==
    /\ returned
    /\ \E i \in DelimiterPlaces :
           /\ text[i] = "."
           /\ ~OnTableLine(i)
           /\ LettersBefore(i) = <<"D", "r">>
           /\ NonSpaceAfter(i) # {}
           /\ IsUpper(text[Nth(NonSpaceAfter(i), 1)])
    /\ Len(spans) = 1

\* the tokens of the list in lower case
LowerCaseAbbreviations == {ToLower(a) : a \in commonAbbreviations}

\* C23 as the spec states it: a period whose run of letters just before it
\* is a token of the list of abbreviations in any mix of upper and lower
\* case, such as "Dr", "dr" or "DR", is no boundary.
AbbreviationInAnyCase ==
    returned
        => \A i \in DelimiterPlaces :
               (text[i] = "." /\ ToLower(LettersBefore(i)) \in LowerCaseAbbreviations)
                   => ~isEndOfSentence(text, i - 1)

\* the places of the delimiters the classifier takes for boundaries
Boundaries == {i \in DelimiterPlaces : isEndOfSentence(text, i - 1)}

\* where the k-th span lies in the text when the spans lie in it in order
\* with nothing but white space around them: it starts at the first rune
\* after the span before it that is no white space
RECURSIVE SpanEnd(_)
SpanStart(k) ==
    LET after == {j \in ((IF k = 1 THEN 0 ELSE SpanEnd(k - 1)) + 1)..Len(text) :
                      ~IsSpace(text[j])}
    IN  IF after = {} THEN Len(text) + 1 ELSE Nth(after, 1)

SpanEnd(k) == SpanStart(k) + Len(spans[k]) - 1

\* the spans are not empty, have no white space at their ends, are
\* substrings of the text that follow each other in the order of the text,
\* and all the text outside them is white space
SpansLieInText ==
    /\ \A k \in 1..Len(spans) :
           /\ spans[k] # <<>>
           /\ SpanEnd(k) <= Len(text)
           /\ spans[k] = SubSeq(text, SpanStart(k), SpanEnd(k))
           /\ ~IsSpace(text[SpanEnd(k)])
    /\ \A j \in ((IF spans = <<>> THEN 0 ELSE SpanEnd(Len(spans))) + 1)..Len(text) :
           IsSpace(text[j])

\* a span ends only where a boundary closes it: between two spans that
\* follow each other there is a boundary, and inside a span there is none
SpansSplitAtBoundaries ==
    /\ \A k \in 1..(Len(spans) - 1) :
           \E b \in Boundaries : SpanEnd(k) <= b /\ b < SpanStart(k + 1)
    /\ \A k \in 1..Len(spans) :
           \A b \in Boundaries : ~(SpanStart(k) <= b /\ b < SpanEnd(k))

\* C24 as the spec states it: the spans are non-empty trimmed substrings of
\* the text in its order, outside of which the text is white space; spans
\* are split at boundaries only, and every delimiter judged a boundary is
\* the last rune of the span it closes.
BoundaryEndsItsSpan ==
    returned
        => /\ SpansLieInText
           /\ SpansSplitAtBoundaries
           /\ \A b \in Boundaries : \E k \in 1..Len(spans) : SpanEnd(k) = b

\* C24, amended: as stated for a boundary delimiter that is no white space;
\* a boundary delimiter that is white space, such as the line feed of the
\* default sets, closes the span before it and is trimmed away: it lies
\* outside every span.
BoundaryEndsItsSpanUnlessSpace ==
    returned
        => /\ SpansLieInText
           /\ SpansSplitAtBoundaries
           /\ \A b \in Boundaries :
                  IF IsSpace(text[b])
                  THEN \A k \in 1..Len(spans) : ~(SpanStart(k) <= b /\ b <= SpanEnd(k))
                  ELSE \E k \in 1..Len(spans) : SpanEnd(k) = b

\* the tokenizer returned two spans for a text of two lines: one closed by
\* a line feed, which is outside of it, and the remainder
SpanStructureWitness ==
    /\ returned
    /\ Len(spans) = 2
    /\ \E b \in Boundaries : text[b] = "LF" /\ SpanEnd(1) < b /\ b < SpanStart(2)
    /\ SpanEnd(2) \notin Boundaries

----------------------------------------------------------------------------
(* Properties of the lookup tables *)

\* the goroutines that have made a map for the global
Builders == {g \in DOMAIN callers : callers[g].built}

\* C26: with several goroutines calling the query function before the table
\* exists, the program is not stopped, the table is made once, a goroutine
\* that reads the table reads the complete one, and every call that has
\* returned has returned what a call after a completed initialisation returns.
LazyInitBuildsOnceAndCompletely ==
    /\ ~fatal
    /\ Cardinality(Builders) <= 1
    /\ \A g \in DOMAIN callers :
           /\ callers[g].pc = "lookup" => lookupTable = <<FullTable>>
           /\ callers[g].pc = "done"
                  => callers[g].result = LookupIn(FullTable, callers[g].word)

----------------------------------------------------------------------------
(* Properties of the steps of Stream and Flush *)

\* the kinds of the emissions, in order
Kinds(emissions) == [i \in 1..Len(emissions) |-> emissions[i].kind]

\* s has a rune that is not white space
NonBlank(s) == \E i \in 1..Len(s) : ~IsSpace(s[i])

\* C12 as the spec states it: with an empty set of fragment delimiters and
\* an input that is not blank, however it is chunked, Stream emits nothing
\* and Flush emits exactly one string, the whole input up to cleanup and
\* the white space at its ends.
EmptyDelimitersFlushWholeInput ==
    (Drained /\ cfg.SentenceFragmentDelimiters = {} /\ NonBlank(Decoded(source)))
        => /\ Kinds(emitted) = <<"flush">>
           /\ TrimSpace(emitted[1].text)
                  = TrimSpace(CleanText(Decoded(source), cfg.CleanupOptions))

\* C12, amended: with an empty set of fragment delimiters, however the input
\* is chunked, Stream emits nothing; when the input without NUL has a rune
\* that is not white space, Flush emits exactly one string, the cleaned form
\* of that input without NUL and without the white space at its ends,
\* followed by one space when it is shorter than MinimumSentenceLength;
\* otherwise Flush emits nothing.
EmptyDelimitersFlushScannedInput ==
    cfg.SentenceFragmentDelimiters = {}
        => /\ \A i \in 1..Len(emitted) : emitted[i].kind = "flush"
           /\ Drained =>
                  IF NonBlank(Scanned(source))
                  THEN /\ Len(emitted) = 1
                       /\ \E t \in {SubSeq(Scanned(source), i, j) :
                                        i, j \in 1..Len(Scanned(source))} :
                              /\ IsTrimOf(t, Scanned(source))
                              /\ emitted[1].raw
                                     = IF ByteLen(t) < cfg.MinimumSentenceLength
                                       THEN t \o <<" ">> ELSE t
                              /\ emitted[1].text
                                     = CleanText(emitted[1].raw, cfg.CleanupOptions)
                  ELSE emitted = <<>>

\* a run with an empty set of fragment delimiters whose Stream took a
\* full-sentence delimiter into the context window and whose Flush emitted
\* the input, which was added in several chunks
EmptyDelimitersWitness ==
    /\ Drained
    /\ cfg.SentenceFragmentDelimiters = {}
    /\ lastDelimiterPosition >= 0
    /\ split
    /\ Kinds(emitted) = <<"flush">>

\* what a running Stream still has to do: the runes and the chunks it has
\* not taken yet, and its return
StreamWork ==
    Len(Concat(inputBuffer)) + Len(inputBuffer) + Len(chunk)
        + (IF streaming THEN 1 ELSE 0)

\* a step of the goroutine of Stream
StreamStep == StreamNextChunk \/ StreamScanChar \/ StreamReturn

\* n is a state of the splitter with the strings of one step
IsSplitterState(n) ==
    /\ DOMAIN n = DOMAIN NewSplitterState
    /\ n.buffer \in Seq({n.buffer[i] : i \in 1..Len(n.buffer)})
    /\ n.isFirstSentence \in BOOLEAN
    /\ n.wordCount \in Nat
    /\ n.lastDelimiterPosition \in Int /\ n.lastDelimiterPosition >= -1
    /\ \A i \in 1..Len(n.out) : n.out[i].kind \in {"quick", "step3"}

\* C13: no call of the owner aborts or hangs.  In every state a running
\* Stream can take its next step (the next rune is scanned into a state of
\* the splitter, the next chunk is taken, or the channel is closed and the
\* call returns), every step of Stream leaves it less to do, a Flush on any
\* buffer sends a finite sequence of strings and returns, and a run to which
\* no text was added emits nothing.
NoAbortState ==
    /\ [](/\ (streaming /\ chunk # <<>>)
                => IsSplitterState(ScanChar(SplitterState, cfg, DecodeRune(Head(chunk))))
          /\ (streaming /\ chunk = <<>> /\ inputBuffer # <<>>)
                => ENABLED StreamNextChunk
          /\ (streaming /\ chunk = <<>> /\ inputBuffer = <<>>)
                => ENABLED StreamReturn
          /\ (~streaming /\ ~flushed)
                => \A i \in 1..Len(FlushOutput(buffer, cfg)) :
                       FlushOutput(buffer, cfg)[i].kind = "flush"
          /\ source = <<>> => emitted = <<>>)
    /\ [][StreamStep => StreamWork' < StreamWork]_vars

\* a run on an input with a NUL and an invalid byte, added in several
\* chunks under a minimum length of zero, has ended with Stream and Flush
\* returned
NoAbortWitness ==
    /\ Drained
    /\ ~streaming
    /\ split
    /\ \E i, j \in 1..Len(source) : source[i] = "NUL" /\ source[j] = "BAD"
    /\ cfg.MinimumSentenceLength = 0

\* the rune the next step of Stream scans
ScannedChar == DecodeRune(Head(chunk))

\* the buffer of the next step of Stream once the rune is appended and the
\* leading white space dropped
AppendedBuffer == TrimLeftCutset(Append(buffer, ScannedChar))

\* the strings the step sent
Sent == SubSeq(emitted', Len(emitted) + 1, Len(emitted'))

\* C14 as the spec states it: a step of Stream changes the buffer only by
\* appending the scanned rune and dropping leading white space, or, when it
\* emits, by removing from that buffer exactly the prefix it emitted: what
\* was not emitted stays in the buffer verbatim, trailing white space
\* included.
BufferKeepsRemainderVerbatim ==
    [][(StreamScanChar /\ ScannedChar # "NUL")
           => IF Sent = <<>>
              THEN buffer' = AppendedBuffer
              ELSE \E k \in 0..Len(AppendedBuffer) :
                       /\ NonSpace(SubSeq(AppendedBuffer, 1, k))
                              = NonSpace(Concat(Raws(Sent)))
                       /\ buffer' = SubSeq(AppendedBuffer, k + 1, Len(AppendedBuffer))
      ]_vars

\* the sentences the test expects for BasicText
BasicSentences ==
    <<<<"T", "h", "i", "s", " ", "i", "s", " ", "a", " ", "s", "e", "n", "t", "e",
        "n", "c", "e", ".">>,
      <<"A", "n", "d", " ", "h", "e", "r", "e", "'", "s", " ", "a", "n", "o", "t",
        "h", "e", "r", "!">>,
      <<"Y", "e", "t", ",", " ", "t", "h", "e", "r", "e", "'", "s", " ", "m", "o",
        "r", "e", ".">>,
      <<"T", "h", "i", "s", " ", "e", "n", "d", "s", " ", "n", "o", "w", ".">>>>

\* C15: with the default configuration, the input BasicText added as a
\* single chunk, scanned by a drained Stream and followed by a drained
\* Flush, as GenerateSentencesFromString does, yields exactly the four
\* sentences "This is a sentence.", "And here's another!", "Yet, there's
\* more." and "This ends now.", in this order.
BasicTextYieldsFourSentences ==
    (Drained /\ cfg = DefaultConfig /\ source = BasicText /\ ~split)
        => Texts(emitted) = BasicSentences

\* the run of BasicText as a single chunk has ended: the quick-yield branch
\* sent the first and the last sentence, step 3 the two between them
BasicTextWitness ==
    /\ Drained
    /\ cfg = DefaultConfig
    /\ source = BasicText
    /\ ~split
    /\ Kinds(emitted) = <<"quick", "step3", "step3", "quick">>

QuickStep == StreamScanChar /\ Sent # <<>> /\ Sent[1].kind = "quick"

\* the step sent spans by step 3
Step3Step == StreamScanChar /\ Sent # <<>> /\ Sent[1].kind = "step3"

\* C17 as the spec states it: a quick-yield emission clears the
\* first-sentence flag only in all-fragments mode; in first-fragment mode
\* the flag stays set after the quick-yield emission, and only a step-3
\* emission clears it.
QuickYieldClearsFlagInAllFragmentsOnly ==
    [][/\ QuickStep => (isFirstSentence' <=> cfg.QuickYieldMode # QuickYieldAllFragments)
       /\ (cfg.QuickYieldMode = QuickYieldFirstFragment
               /\ isFirstSentence /\ ~isFirstSentence') => Step3Step
      ]_vars

\* C17, amended: a quick-yield emission happens with the first-sentence flag
\* set and clears it in every mode; a step-3 emission sets the flag in
\* all-fragments mode and leaves it as it is in the other modes; no other
\* step changes the flag.  So in first-fragment mode the flag, once cleared
\* by the quick-yield emission, is never set again.
QuickYieldClearsFlagInEveryMode ==
    [][/\ QuickStep => isFirstSentence /\ ~isFirstSentence'
       /\ Step3Step => (isFirstSentence' <=>
                            \/ cfg.QuickYieldMode = QuickYieldAllFragments
                            \/ isFirstSentence)
       /\ ~(QuickStep \/ Step3Step) => (isFirstSentence' <=> isFirstSentence)
      ]_vars

\* in first-fragment mode a quick-yield emission was followed by a step-3
\* emission and the first-sentence flag is not set
FlagClearedWitness ==
    /\ cfg.QuickYieldMode = QuickYieldFirstFragment
    /\ ~isFirstSentence
    /\ Len(emitted) >= 2
    /\ emitted[1].kind = "quick"
    /\ emitted[2].kind = "step3"

\* the places in the emissions of the run of those the quick-yield branch sent
QuickPlaces == {i \in 1..Len(emitted) : emitted[i].kind = "quick"}

ReachesStep3 ==
    /\ StreamScanChar
    /\ ScannedChar # "NUL"
    /\ ~QuickStep
    /\ ByteLen(AppendedBuffer) > cfg.MinimumSentenceLength + cfg.ContextSize

\* the tracked offset of the last full-sentence delimiter as step 3 uses it
TrackedOffset ==
    IF ScannedChar \in cfg.FullSentenceDelimiters
    THEN ByteLen(AppendedBuffer) - 1
    ELSE lastDelimiterPosition

\* the coalesced spans of the buffer as step 3 computes them
CoalescedSpans ==
    combineSentences(
        TokenizeSentencesWithDelimiters(AppendedBuffer, cfg.SentenceFragmentDelimiters),
        cfg.MinimumSentenceLength)

\* step 3 emits exactly when there are more than two coalesced spans or the
\* tracked offset is one of lo..hi, and there is more than one span and the
\* spans before the last reach Lmin together
EmitsOnWindow(lo, hi) ==
    ReachesStep3
        => (Step3Step <=>
                /\ \/ Len(CoalescedSpans) > 2
                   \/ TrackedOffset >= 0 /\ lo <= TrackedOffset /\ TrackedOffset <= hi
                /\ Len(CoalescedSpans) > 1
                /\ SumByteLen(AllButLast(CoalescedSpans)) >= cfg.MinimumSentenceLength)

\* C19 as the spec states it: step 3 attempts an emission exactly when the
\* coalesced span count exceeds two or the tracked offset of the last
\* full-sentence delimiter is one of the last W offsets of the buffer,
\* bufferLength - W to bufferLength - 1.
FlushNowOnTrailingWindow ==
    [][EmitsOnWindow(ByteLen(AppendedBuffer) - cfg.ContextSize,
                     ByteLen(AppendedBuffer) - 1)]_vars

\* C19, amended: step 3 attempts an emission exactly when the coalesced span
\* count exceeds two or the tracked offset of the last full-sentence
\* delimiter is at least W and at most 2W bytes before the last byte of the
\* buffer: one of the offsets max(0, bufferLength - 2W - 1) to
\* bufferLength - W - 1.
FlushNowOnContextWindow ==
    [][EmitsOnWindow(IF ByteLen(AppendedBuffer) - 2 * cfg.ContextSize - 1 < 0 THEN 0
                     ELSE ByteLen(AppendedBuffer) - 2 * cfg.ContextSize - 1,
                     ByteLen(AppendedBuffer) - cfg.ContextSize - 1)]_vars

\* step 3 has emitted the first of two coalesced spans, which only the
\* window can decide, under a context of two runes, and Stream goes on
FlushNowWitness ==
    /\ streaming
    /\ cfg.ContextSize = 2
    /\ Kinds(emitted) = <<"step3">>
    /\ buffer # <<>>
    /\ lastDelimiterPosition = -1

\* C20: a step of Stream whose buffer, with the scanned rune, is not longer
\* than Lmin + W emits nothing by step 3 and leaves the tracked delimiter
\* offset as it is, also when the rune is a full-sentence delimiter; with
\* quick-yield disabled such a step emits nothing at all.
NoStep3BelowThreshold ==
    [][(/\ StreamScanChar
        /\ ScannedChar # "NUL"
        /\ ByteLen(AppendedBuffer) <= cfg.MinimumSentenceLength + cfg.ContextSize)
           => /\ ~Step3Step
              /\ lastDelimiterPosition' = lastDelimiterPosition
              /\ cfg.QuickYieldMode = NoQuickYield => Sent = <<>>
      ]_vars

\* with quick-yield disabled, Stream has scanned a full-sentence delimiter
\* into a buffer that begins with one and is not longer than Lmin + W:
\* nothing is emitted and no offset is tracked
BelowThresholdWitness ==
    /\ streaming
    /\ cfg.QuickYieldMode = NoQuickYield
    /\ Len(buffer) >= 2
    /\ ByteLen(buffer) <= cfg.MinimumSentenceLength + cfg.ContextSize
    /\ buffer[Len(buffer)] \in cfg.FullSentenceDelimiters
    /\ buffer[1] \in cfg.FullSentenceDelimiters
    /\ lastDelimiterPosition = -1
    /\ emitted = <<>>

\* the spans of the buffer as Flush computes them
FlushSpans == TokenizeSentencesWithDelimiters(buffer, cfg.SentenceFragmentDelimiters)

\* the spans a..b joined by single spaces
JoinedSpans(a, b) == Join(SubSeq(FlushSpans, a, b), " ")

\* the ways to cut the spans into consecutive runs: the sets of the places
\* of the last span of each run
Cuts ==
    {cuts \in SUBSET (1..Len(FlushSpans)) :
         FlushSpans # <<>> => Len(FlushSpans) \in cuts}

\* the first span of the k-th run
RunStart(cuts, k) == IF k = 1 THEN 1 ELSE Nth(cuts, k - 1) + 1

\* C21 as the spec states it: Flush sends the spans of the buffer in order,
\* each in exactly one unit, a unit being consecutive spans joined by single
\* spaces; a unit is sent as soon as it reaches Lmin, so every unit but the
\* last has at least Lmin bytes before cleanup.
FlushUnitsAreJoinedSpans ==
    [][Flush
           => \E cuts \in Cuts :
                  /\ Len(Sent) = Cardinality(cuts)
                  /\ \A k \in 1..Len(Sent) :
                         /\ Sent[k].kind = "flush"
                         /\ Sent[k].raw = JoinedSpans(RunStart(cuts, k), Nth(cuts, k))
                         /\ k < Len(Sent)
                                => ByteLen(Sent[k].raw) >= cfg.MinimumSentenceLength
                         /\ \A b \in RunStart(cuts, k)..(Nth(cuts, k) - 1) :
                                ByteLen(JoinedSpans(RunStart(cuts, k), b))
                                    < cfg.MinimumSentenceLength
      ]_vars

\* C21, amended: as stated, except that a unit that ends below Lmin, which
\* only the last unit can, is sent with one more space at its end.
FlushUnitsAreJoinedSpansOrPadded ==
    [][Flush
           => \E cuts \in Cuts :
                  /\ Len(Sent) = Cardinality(cuts)
                  /\ \A k \in 1..Len(Sent) :
                         LET joined == JoinedSpans(RunStart(cuts, k), Nth(cuts, k))
                         IN  /\ Sent[k].kind = "flush"
                             /\ Sent[k].text = CleanText(Sent[k].raw, cfg.CleanupOptions)
                             /\ Sent[k].raw
                                    = IF ByteLen(joined) < cfg.MinimumSentenceLength
                                      THEN joined \o <<" ">> ELSE joined
                             /\ k < Len(Sent)
                                    => ByteLen(joined) >= cfg.MinimumSentenceLength
                             /\ \A b \in RunStart(cuts, k)..(Nth(cuts, k) - 1) :
                                    ByteLen(JoinedSpans(RunStart(cuts, k), b))
                                        < cfg.MinimumSentenceLength
      ]_vars

\* Flush has sent a unit of several spans that reaches Lmin and then a
\* leftover below Lmin
FlushUnitsWitness ==
    /\ flushed
    /\ Len(emitted) >= 2
    /\ LET unit == emitted[Len(emitted) - 1]
           left == emitted[Len(emitted)]
       IN  /\ unit.kind = "flush"
           /\ left.kind = "flush"
           /\ Len(TokenizeSentencesWithDelimiters(
                      unit.raw, cfg.SentenceFragmentDelimiters)) >= 2
           /\ ByteLen(left.raw) <= cfg.MinimumSentenceLength

\* what Stream has still to scan: the rest of its chunk, then the queue
Remaining == chunk \o Concat(inputBuffer)

\* C25: the chunks wait in the order they were added; a running Stream takes
\* them from the front and scans their runes one by one in order, each rune
\* going once into the buffer or into what the step sends (a NUL is
\* skipped); every step leaves Stream less to do, and it returns, its channel
\* closed, exactly when nothing is left in its chunk and in the queue.
StreamDrainsQueue ==
    /\ [](HasSuffix(SubSeq(source, 1, fed), Remaining))
    /\ [][/\ StreamNextChunk => (chunk' = Head(inputBuffer) /\ Remaining' = Remaining)
          /\ StreamScanChar
                 => /\ Remaining = <<Head(chunk)>> \o Remaining'
                    /\ NonSpace(Concat(Raws(Sent)) \o buffer')
                           = NonSpace(buffer \o (IF ScannedChar = "NUL" THEN <<>>
                                                 ELSE <<ScannedChar>>))
          /\ StreamReturn => (Remaining = <<>> /\ ~streaming' /\ inputBuffer' = <<>>)
          /\ StreamStep => StreamWork' < StreamWork
          /\ (streaming /\ ~streaming') => StreamReturn
      ]_vars

\* a Stream called with the whole input in two chunks in the queue has
\* scanned the first into the buffer and is about to take the second
DrainWitness ==
    /\ streaming
    /\ chunk = <<>>
    /\ Len(inputBuffer) = 1
    /\ inputBuffer[1] # <<>>
    /\ fed = Len(source)
    /\ emitted = <<>>
    /\ buffer # <<>>
    /\ buffer \o inputBuffer[1] = source

\* the rune of s whose encoding holds the byte at offset k (from 0)
RECURSIVE RuneAtByte(_, _)
RuneAtByte(s, k) ==
    IF k < RuneLen(Head(s)) THEN Head(s) ELSE RuneAtByte(Tail(s), k - RuneLen(Head(s)))

\* C27: whenever an offset is tracked, it lies inside the buffer and the
\* rune of the buffer at that offset is a full-sentence delimiter; no
\* emission that resets or replaces the buffer leaves an offset of the old
\* buffer behind.
TrackedOffsetIsValid ==
    lastDelimiterPosition # -1
        => /\ lastDelimiterPosition >= 0
           /\ lastDelimiterPosition < ByteLen(buffer)
           /\ RuneAtByte(buffer, lastDelimiterPosition) \in cfg.FullSentenceDelimiters

\* the places of the runes of t that Stream keeps in every unit: neither
\* white space nor NUL
ContentPlaces(t) == {i \in 1..Len(t) : t[i] \notin SpaceRunes \cup {"NUL"}}

\* how many such runes the first k units hold
ContentCount(k) == Len(NonSpace(Concat(SubSeq(Raws(emitted), 1, k))))

\* the k-th unit ends in t at a delimiter the tokenizer judges a boundary of
\* t, or white space up to such a delimiter follows it
UnitEndsAtBoundary(t, k) ==
    LET n     == ContentCount(k)
        place == CHOOSE i \in ContentPlaces(t) :
                     Cardinality({j \in ContentPlaces(t) : j <= i}) = n
        later == {j \in ContentPlaces(t) : j > place}
        next  == IF later = {} THEN Len(t) + 1
                 ELSE CHOOSE j \in later : \A h \in later : j <= h
    IN  /\ n >= 1
        /\ \E p \in place..(next - 1) :
               /\ t[p] \in cfg.SentenceFragmentDelimiters
               /\ isEndOfSentence(t, p - 1)

\* C28: with quick-yield disabled and no table character in the input,
\* every unit that Stream, or Flush after it with the queue scanned, has sent
\* and that is not the end of the input ends where the tokenizer, given the
\* whole input, finds a boundary.
StreamingAgreesWithBatch ==
    (/\ cfg.QuickYieldMode = NoQuickYield
     /\ \A i \in 1..Len(source) : source[i] \notin {"|", "TAB"}
     /\ flushed => inputBuffer = <<>>)
        => \A k \in 1..Len(emitted) :
               ContentCount(k) < Cardinality(ContentPlaces(source))
                   => UnitEndsAtBoundary(Decoded(source), k)

\* the places in the emissions of the run of those step 3 sent
Step3Places == {i \in 1..Len(emitted) : emitted[i].kind = "step3"}

\* C29: between two emissions of the quick-yield branch there is an
\* emission of step 3, in every mode; outside all-fragments mode the branch
\* emits at most once; and the first-sentence flag is set exactly when the
\* branch has not emitted yet or, in all-fragments mode, step 3 has emitted
\* since the branch did: quick-yield takes the first fragment after a
\* step-3 emission only.
QuickYieldReArmedByStep3 ==
    /\ \A i \in QuickPlaces : \A j \in QuickPlaces :
           i < j => \E k \in Step3Places : i < k /\ k < j
    /\ cfg.QuickYieldMode # QuickYieldAllFragments => Cardinality(QuickPlaces) <= 1
    /\ isFirstSentence
           <=> \/ QuickPlaces = {}
               \/ /\ cfg.QuickYieldMode = QuickYieldAllFragments
                  /\ \E k \in Step3Places : \A i \in QuickPlaces : i < k

\* in all-fragments mode the quick-yield branch has emitted, then step 3,
\* then the quick-yield branch again
ReArmedWitness ==
    /\ cfg.QuickYieldMode = QuickYieldAllFragments
    /\ \E i \in QuickPlaces : \E j \in QuickPlaces :
           /\ i < j
           /\ \E k \in Step3Places : i < k /\ k < j
    /\ ~isFirstSentence

\* the emissions of the run that Stream sent
StreamEmissions == SelectSeq(emitted, LAMBDA e : e.kind # "flush")

\* the input that Stream has scanned so far
ScannedSoFar ==
    Scanned(SubSeq(source, 1, fed - Len(Remaining)))

\* C30: Flush changes nothing of the splitter: buffer, queue, first-sentence
\* flag, tracked offset and word count are after it what they were before,
\* so that what it sent is what a Flush called next sends, and a Flush that
\* follows a Flush sends the strings of that one again; Add and Stream after
\* Flush go on from the buffer that Flush left: at every time the buffer
\* holds what Stream has scanned and has not sent itself, whatever Flush
\* has sent of it.
FlushLeavesSplitterAlone ==
    /\ [][FlushAnyTime
             => /\ UNCHANGED <<buffer, inputBuffer, isFirstSentence,
                               lastDelimiterPosition, wordCount, chunk>>
                /\ Sent = FlushOutput(buffer', cfg)
                /\ flushed => /\ Len(emitted) >= Len(Sent)
                              /\ Sent = SubSeq(emitted, Len(emitted) - Len(Sent) + 1,
                                               Len(emitted))
         ]_vars
    /\ [](NonSpace(Concat(Raws(StreamEmissions)) \o buffer) = NonSpace(ScannedSoFar))

\* Flush was called twice in a row and sent the same string both times, and
\* a Stream called after them, with more input added, has sent the string
\* again as part of a longer one
ReuseWitness ==
    /\ Len(emitted) >= 3
    /\ emitted[1].kind = "flush"
    /\ emitted[2] = emitted[1]
    /\ emitted[3].kind = "step3"
    /\ IsPrefix(TrimSpace(emitted[1].raw), emitted[3].raw)
    /\ Len(emitted[3].raw) > Len(TrimSpace(emitted[1].raw))

====
